---- MODULE Spec2Model ----
(***************************************************************************)
(* The versioned training-dataset builder of orthoseg                      *)
(* (src/orthoseg/prepare_traindatasets.py): version discovery, the reuse   *)
(* check, staging in <NN>_BUSY, the tile loop per split, and promotion;    *)
(* the legacy converter convert_traindata_v1tov2; and _create_mask, which  *)
(* is followed on its own files under SpecMask. SpecNames starts from      *)
(* training roots with other directory names, SpecLegacy from label        *)
(* directories in the v1 format, SpecTwo runs two builders on one root.    *)
(* SpecImages follows create_masks_for_images of the same file, SpecPost   *)
(* follows postprocess_prediction of src/postprocess.py.                   *)
(*                                                                         *)
(* A text (a directory name) is a sequence of one-character strings, so    *)
(* that glob matching, str.endswith, sorted(), int() and the 02d format    *)
(* are computed character by character as Python computes them.            *)
(* Coordinates are integers counting sixteenths of a CRS unit, so the      *)
(* default pixel size 0.25 is 4 and the 512 pixel tile is 2048 wide.       *)
(***************************************************************************)
EXTENDS Integers, Sequences, FiniteSets, TLC

\* ------------------------------------------------------------------ bounds

\* Number of prepare_traindatasets calls in one behaviour.
MaxCalls == 2

\* The long-lived start state: a training root after StartHigh successful
\* builds, of which the user kept the KeptVersions most recent directories.
StartHigh == 99

KeptVersions == 2

\* --------------------------------------------------------------- characters

\* The characters used in names, in ASCII order (digits < upper case < "_" < lower case).
Alphabet ==
  << "0", "1", "2", "3", "4", "5", "6", "7", "8", "9",
     "B", "E", "O", "R", "S", "U", "Y", "_", "a", "b", "c", "i", "n", "r", "t" >>

DigitChars == {"0", "1", "2", "3", "4", "5", "6", "7", "8", "9"}

\* Position of a character in ASCII order (the order str comparison uses).
Code(c) == CHOOSE k \in 1..Len(Alphabet) : Alphabet[k] = c

DigitVal(c) == Code(c) - 1

DigitChar(d) == Alphabet[d + 1]

BUSY == << "_", "B", "U", "S", "Y" >>

TRAIN_ == << "t", "r", "a", "i", "n", "_" >>

\* The text is the suffix, whole.
EndsWithWhole(s, suffix) == s = suffix

\* str.endswith
EndsWith(s, suffix) ==
  /\ Len(s) >= Len(suffix)
  /\ SubSeq(s, Len(s) - Len(suffix) + 1, Len(s)) = suffix

StartsWith(s, prefix) ==
  /\ Len(s) >= Len(prefix)
  /\ SubSeq(s, 1, Len(prefix)) = prefix

\* Python's str "<": character by character, a proper prefix is smaller.
RECURSIVE StrLess(_, _)
StrLess(a, b) ==
  IF a = << >> THEN b # << >>
  ELSE IF b = << >> THEN FALSE
  ELSE IF Head(a) = Head(b) THEN StrLess(Tail(a), Tail(b))
  ELSE Code(Head(a)) < Code(Head(b))

\* sorted(names, reverse=True)[0]
SortedReverseFirst(names) ==
  CHOOSE m \in names : \A o \in names : o = m \/ StrLess(o, m)

\* The decimal digits of a natural number.
RECURSIVE DecDigits(_)
DecDigits(n) ==
  IF n < 10 THEN << DigitChar(n) >>
  ELSE Append(DecDigits(n \div 10), DigitChar(n % 10))

\* f"{n:02d}": zero-padded to a MINIMUM width of two, wider when n >= 100.
Format02d(n) ==
  LET d == DecDigits(n) IN IF Len(d) < 2 THEN << "0" >> \o d ELSE d

\* int(s) raises ValueError unless s is a decimal literal (names here carry
\* no sign or blank; "_" inside a name makes it end in a non-numeric part).
IsIntLiteral(s) == s # << >> /\ \A k \in 1..Len(s) : s[k] \in DigitChars

RECURSIVE IntOf(_)
IntOf(s) ==
  IF s = << >> THEN 0
  ELSE 10 * IntOf(SubSeq(s, 1, Len(s) - 1)) + DigitVal(s[Len(s)])

\* s.split('_')[1]: the text between the first and the second underscore.
RECURSIVE UpToUnderscore(_)
UpToUnderscore(s) ==
  IF s = << >> \/ Head(s) = "_" THEN << >>
  ELSE << Head(s) >> \o UpToUnderscore(Tail(s))

SplitUnderscore1(s) ==
  LET first == UpToUnderscore(s)
  IN  UpToUnderscore(SubSeq(s, Len(first) + 2, Len(s)))

\* ------------------------------------------------------------- the inputs

\* image_pixel_x_size = 0.25 and image_pixel_y_size = 0.25, in sixteenths.
image_pixel_x_size == 4

image_pixel_y_size == 4

image_pixel_width == 512

image_pixel_height == 512

Abs(x) == IF x < 0 THEN -x ELSE x

\* tile width and height in units of the CRS
image_srs_width == Abs(image_pixel_width * image_pixel_x_size)

image_srs_height == Abs(image_pixel_height * image_pixel_y_size)

TraindataTypes == << "train", "validation", "test" >>

\* One label location: its split and the bounds (xmin, ymin, xmax, ymax) of its geometry.
Loc(type, xmin, ymin) ==
  [traindata_type |-> type, bounds |-> << xmin, ymin, xmin + 1600, ymin + 1600 >>]

\* Two locations files. A: two train locations in the same tile, a third far
\* away, a validation location on the train tile, no test location.
LocationsA ==
  << Loc("train", 0, 0), Loc("train", 3, 2), Loc("validation", 0, 0),
     Loc("train", 2052, 0) >>

\* B: negative coordinates, a train tile that only touches the first one on
\* an edge, one test location.
LocationsB ==
  << Loc("train", -5, -5), Loc("train", 2040, -8), Loc("test", 100, 100) >>

LocationsTables == {LocationsA, LocationsB}

Label(name, xmin, ymin, xmax, ymax) ==
  [label_name |-> name, bounds |-> << xmin, ymin, xmax, ymax >>]

DataA == << Label("building", 16, 16, 160, 160) >>

DataB == << Label("building", 16, 16, 160, 160), Label("road", 0, 320, 2048, 400) >>

DataTables == {DataA, DataB}

\* File names a locations file can have in the label directory, and the data file's.
LocationsNames == {"subject_labellocations.gpkg", "subject_locations.gpkg"}

DataName == "subject_labeldata.gpkg"

\* The legacy (v1) files convert_traindata_v1tov2 looks for beside the locations file.
LegacyTrainName == "subject_trainlabels.shp"

LegacyValidationName == "subject_validationlabels.shp"

LegacyTestName == "subject_testlabels.shp"

Procs == {"builder"}

\* ------------------------------------------------------------ the file system

\* A tile's image (or mask) file is named after its box, so a file is its box.
EmptySplit == [image |-> {}, mask |-> {}]

EmptyDir == [files |-> << >>, splits |-> << >>]

\* A function with one more (or one replaced) entry.
Put(f, k, v) == [x \in DOMAIN f \cup {k} |-> IF x = k THEN v ELSE f[x]]

Remove(f, k) == [x \in DOMAIN f \ {k} |-> f[x]]

\* geofile_util.cmp: exact content equality of two files.
cmp(content_a, content_b) == content_a = content_b

\* ------------------------------------------------------- the geometry sampler

\* The lower left corner rounded towards zero on the pixel grid.
TileBoxTowardsZero(geom_bounds) ==
  LET Trunc(v, size) == IF v < 0 THEN -((-v) - ((-v) % size)) ELSE v - (v % size)
      xmin == Trunc(geom_bounds[1], image_pixel_x_size)
      ymin == Trunc(geom_bounds[2], image_pixel_y_size)
  IN  << xmin, ymin, xmin + image_srs_width, ymin + image_srs_height >>

\* The tile box of a location: the lower left corner of its bounds snapped to
\* the pixel grid, and the fixed tile size.
TileBox(geom_bounds) ==
  LET xmin == geom_bounds[1] - (geom_bounds[1] % image_pixel_x_size)
      ymin == geom_bounds[2] - (geom_bounds[2] % image_pixel_y_size)
      xmax == xmin + image_srs_width
      ymax == ymin + image_srs_height
  IN  << xmin, ymin, xmax, ymax >>

\* Boxes sharing an interior point: boxes that only touch do not count.
IntersectsInterior(a, b) ==
  a[1] < b[3] /\ b[1] < a[3] /\ a[2] < b[4] /\ b[2] < a[4]

\* shapely's intersects of two boxes: they share at least one point, a
\* boundary point included.
Intersects(a, b) ==
  a[1] <= b[3] /\ b[1] <= a[3] /\ a[2] <= b[4] /\ b[2] <= a[4]

\* No location is ever skipped.
IntersectsNever(created, img_bbox) == FALSE

\* created_images_gdf.intersects(img_bbox).any()
IntersectsAny(created, img_bbox) ==
  \E k \in 1..Len(created) : Intersects(created[k], img_bbox)

\* labellocations_gdf[labellocations_gdf['traindata_type'] == traindata_type]
LabelsToUseForBounds(gdf, traindata_type) ==
  SelectSeq(gdf, LAMBDA l : l.traindata_type = traindata_type)

\* The boxes a whole split accepts, in source order.
RECURSIVE AcceptedBoxes(_, _)
AcceptedBoxes(locations, created) ==
  IF locations = << >> THEN created
  ELSE LET img_bbox == TileBox(Head(locations).bounds)
       IN  AcceptedBoxes(Tail(locations),
             IF IntersectsAny(created, img_bbox) THEN created
             ELSE Append(created, img_bbox))

Range(s) == {s[k] : k \in 1..Len(s)}

\* The version directory a build without any exception leaves behind.
BuiltDir(locations_name, locations, data) ==
  [files  |-> (locations_name :> locations) @@ (DataName :> data),
   splits |-> [t \in Range(TraindataTypes) |->
                LET boxes == Range(AcceptedBoxes(LabelsToUseForBounds(locations, t), << >>))
                IN  [image |-> boxes, mask |-> boxes]]]

\* --------------------------------------------------------- version discovery

\* glob.glob(f"{training_dir}{os.sep}[0-9]*{os.sep}"): directories whose name
\* starts with a digit.
GlobVersionDirs(r) == {n \in DOMAIN r : n # << >> /\ n[1] \in DigitChars}

\* glob.glob(f"{training_dir}{os.sep}train_[0-9]*{os.sep}")
GlobLegacyTrainDirs(r) ==
  {n \in DOMAIN r : StartsWith(n, TRAIN_) /\ Len(n) > Len(TRAIN_)
                    /\ n[Len(TRAIN_) + 1] \in DigitChars}

\* Discovery without the filter on the staging suffix.
NotBusyUnfiltered(names) == names

\* [output_dir for output_dir in output_dirs if output_dir.endswith('_BUSY') is False]
NotBusy(names) == {n \in names : ~EndsWith(n, BUSY)}

\* The reuse check: the most recent version directory holds a copy of both
\* input files under their current base names, and both copies compare equal.
InputsUnchanged(r, files, output_dir_mostrecent, locations_path, data_path) ==
  /\ locations_path \in DOMAIN r[output_dir_mostrecent].files
  /\ data_path \in DOMAIN r[output_dir_mostrecent].files
  /\ cmp(files[locations_path], r[output_dir_mostrecent].files[locations_path])
  /\ cmp(files[data_path], r[output_dir_mostrecent].files[data_path])

\* Lines 89-129: what discovery decides for a training root r and the label
\* directory files: reuse the most recent version, build a new one, or raise
\* (int() of a name that is no decimal literal).
Discover(r, files, locations_path, data_path) ==
  LET output_dirs == NotBusy(GlobVersionDirs(r))
      output_legacy_train_dirs == NotBusy(GlobLegacyTrainDirs(r))
  IN  IF output_dirs = {} THEN
        IF output_legacy_train_dirs = {} THEN
          [kind |-> "new", dataversion_new |-> 1, mostrecent |-> << >>]
        ELSE
          LET output_legacy_dir_mostrecent == SortedReverseFirst(output_legacy_train_dirs)
              number == SplitUnderscore1(output_legacy_dir_mostrecent)
          IN  IF IsIntLiteral(number) THEN
                [kind |-> "new", dataversion_new |-> IntOf(number) + 1,
                 mostrecent |-> output_legacy_dir_mostrecent]
              ELSE [kind |-> "raise", message |-> "ValueError",
                    mostrecent |-> output_legacy_dir_mostrecent]
      ELSE
        LET output_dir_mostrecent == SortedReverseFirst(output_dirs)
        IN  IF ~IsIntLiteral(output_dir_mostrecent) THEN
              [kind |-> "raise", message |-> "ValueError",
               mostrecent |-> output_dir_mostrecent]
            ELSE IF InputsUnchanged(r, files, output_dir_mostrecent,
                                    locations_path, data_path) THEN
              [kind |-> "reuse", dataversion_mostrecent |-> IntOf(output_dir_mostrecent),
               mostrecent |-> output_dir_mostrecent]
            ELSE
              [kind |-> "new", dataversion_new |-> IntOf(output_dir_mostrecent) + 1,
               mostrecent |-> output_dir_mostrecent]

\* ------------------------------------------------------------------- state

VARIABLES
  labelfiles,   \* the label directory: file name -> content
  root,         \* the training root: directory name -> directory
  proc,         \* per process: its position in prepare_traindatasets and its locals
  ncalls,       \* number of calls started
  promotions,   \* the version numbers os.rename was asked to promote, in order
  calls,        \* the call completed last and, until the next call starts, the one before
  rasters,      \* the raster files _create_mask works on: path -> file
  maskcall      \* the last call of _create_mask: its arguments and what it did

vars == << labelfiles, root, proc, ncalls, promotions, calls, rasters, maskcall >>

\* What the builder's steps leave alone: _create_mask is followed on its own.
maskvars == << rasters, maskcall >>

\* No call of _create_mask yet.
NoMaskCall ==
  [input_vector_label_list   |-> << >>,
   output_imagecopy_filepath |-> "None",
   minimum_pct_labeled       |-> 0,
   force                     |-> FALSE,
   rasters_before            |-> << >>,
   result                    |-> "not called",
   opened                    |-> {},
   burned                    |-> << >>]

NoOutcome == [kind |-> "none"]

Returned(dir, version) == [kind |-> "return", dir |-> dir, version |-> version]

\* The original exception reaching the caller as it is, not wrapped.
RaisedUnwrapped(message, cause) == [kind |-> "raise", message |-> cause, cause |-> "none"]

Raised(message, cause) == [kind |-> "raise", message |-> message, cause |-> cause]

IdleProc ==
  [pc                  |-> "idle",
   labellocations_path |-> "",
   labeldata_path      |-> "",
   dataversion_new     |-> 0,
   mostrecent          |-> << >>,   \* output_dir_mostrecent of the call's discovery
   labellocations_gdf  |-> << >>,
   labeldata_gdf       |-> << >>,
   type_idx            |-> 1,       \* index of traindata_type in the for loop
   loc_idx             |-> 0,       \* locations of the split already iterated
   created_images      |-> << >>,   \* created_images_gdf
   image_filepath      |-> << >>,   \* what the last fetch returned; << >>: None
   splits_done         |-> FALSE,   \* the for loop over the splits ran to its end
   root_at_call        |-> << >>,   \* the training root when the call started
   files_at_call       |-> << >>,   \* the label directory when the call started
   outcome             |-> NoOutcome]

\* The training root after k successful builds, built from inputs that changed
\* between consecutive builds; the older version directories were removed.
RootAfter(k) ==
  [n \in {Format02d(v) : v \in {w \in 1..k : w > k - KeptVersions}} |->
     BuiltDir("subject_labellocations.gpkg",
              IF IntOf(n) % 2 = 1 THEN LocationsA ELSE LocationsB, DataA)]

Init ==
  /\ \E k \in {0, 1, StartHigh} : root = RootAfter(k)
  /\ \E locations \in LocationsTables :
       labelfiles = ("subject_labellocations.gpkg" :> locations) @@ (DataName :> DataA)
  /\ proc = [p \in Procs |-> IdleProc]
  /\ ncalls = 0
  /\ promotions = << >>
  /\ calls = << >>
  /\ rasters = << >>
  /\ maskcall = NoMaskCall

\* ------------------------------------------------------ the legacy converter

\* get_bbox_translated: the fixed-size tile anchored 10 units left of and below
\* the snapped lower left corner (10 CRS units are 160 sixteenths).
get_bbox_translated(geom_bounds) ==
  LET xmin == geom_bounds[1] - (geom_bounds[1] % image_pixel_x_size) - 160
      ymin == geom_bounds[2] - (geom_bounds[2] % image_pixel_y_size) - 160
  IN  << xmin, ymin, xmin + image_srs_width, ymin + image_srs_height >>

\* A converter that creates its two output files, empty, before it looks for
\* the legacy files, and finds none.
convert_creating_outputs(files, locations_path, data_path) ==
  [ok |-> FALSE, files |-> Put(Put(files, locations_path, << >>), data_path, << >>)]

\* A converter that stops when any of the three legacy files is absent.
convert_requiring_test(files, locations_path, data_path) ==
  IF \/ LegacyTrainName \notin DOMAIN files
     \/ LegacyValidationName \notin DOMAIN files
     \/ LegacyTestName \notin DOMAIN files
  THEN [ok |-> FALSE, files |-> files]
  ELSE [ok |-> TRUE,
        files |-> Put(Put(files, locations_path, << >>), data_path, << >>)]

\* Lines 268-327. A legacy file is a sequence of records with the fields
\* bounds, usebounds, burninmask. The result is whether there was something to
\* convert, and the label directory afterwards.
convert_traindata_v1tov2(files, locations_path, data_path) ==
  IF LegacyTrainName \notin DOMAIN files \/ LegacyValidationName \notin DOMAIN files
  THEN [ok |-> FALSE, files |-> files]
  ELSE
    LET Tag(gdf, type) ==
          [k \in 1..Len(gdf) |->
             [traindata_type |-> type, bounds |-> gdf[k].bounds,
              usebounds |-> gdf[k].usebounds, burninmask |-> gdf[k].burninmask]]
        label_gdf ==
          Tag(files[LegacyTrainName], "train")
            \o Tag(files[LegacyValidationName], "validation")
            \o (IF LegacyTestName \in DOMAIN files
                THEN Tag(files[LegacyTestName], "test") ELSE << >>)
        usable == SelectSeq(label_gdf, LAMBDA l : l.usebounds = 1)
        burned == SelectSeq(label_gdf, LAMBDA l : l.burninmask = 1)
        locations ==
          [k \in 1..Len(usable) |->
             [traindata_type |-> usable[k].traindata_type,
              bounds |-> get_bbox_translated(usable[k].bounds)]]
        data ==
          [k \in 1..Len(burned) |->
             [label_name |-> "subject", bounds |-> burned[k].bounds]]
    IN  [ok |-> TRUE,
         files |-> Put(Put(files, locations_path, locations), data_path, data)]

\* ------------------------------------------------------------ the collaborators

\* geofile_util.copy(src, dest_dir): the file, under its base name, in dest_dir.
CopyToDir(dir, name, content) == [dir EXCEPT !.files = Put(@, name, content)]

\* The image and mask directories made for the train and validation splits only.
MakeSplitDirsNotTest(r, dir, traindata_type) ==
  LET r1 == IF dir \in DOMAIN r THEN r ELSE Put(r, dir, EmptyDir)
  IN  IF traindata_type = "test" \/ traindata_type \in DOMAIN r1[dir].splits THEN r1
      ELSE [r1 EXCEPT ![dir].splits = Put(@, traindata_type, EmptySplit)]

\* os.makedirs of <root>/<dir>/<traindata_type>/{image,mask}, where missing.
MakeSplitDirs(r, dir, traindata_type) ==
  LET r1 == IF dir \in DOMAIN r THEN r ELSE Put(r, dir, EmptyDir)
  IN  IF traindata_type \in DOMAIN r1[dir].splits THEN r1
      ELSE [r1 EXCEPT ![dir].splits = Put(@, traindata_type, EmptySplit)]

\* The force argument of prepare_traindatasets (its default).
force == FALSE

\* A rasterizer that never writes a mask.
create_mask_skipped(split, mask_filepath) == split

\* _create_mask as the builder sees it: skipped when the mask file exists and
\* force is false; otherwise the mask is written (minimum_pct_labeled is 0.0,
\* so the fraction test passes for every mask).
create_mask(split, mask_filepath) ==
  IF force = FALSE /\ mask_filepath \in split.mask THEN split
  ELSE [split EXCEPT !.mask = @ \cup {mask_filepath}]

\* A fetch that returns the path of the image also when the file was there.
getmap_to_file_path_always(r, dir, traindata_type, bbox) ==
  IF dir \notin DOMAIN r \/ traindata_type \notin DOMAIN r[dir].splits
  THEN [kind |-> "raise", root |-> r]
  ELSE [kind |-> "path",
        root |-> [r EXCEPT ![dir].splits[traindata_type].image = @ \cup {bbox}]]

\* ows_util.getmap_to_file without a failure of the service: no path when the
\* image file is already in the output directory, else the file is written
\* and its path returned; it cannot write into a directory that is gone.
getmap_to_file(r, dir, traindata_type, bbox) ==
  IF dir \notin DOMAIN r \/ traindata_type \notin DOMAIN r[dir].splits
  THEN [kind |-> "raise", root |-> r]
  ELSE IF bbox \in r[dir].splits[traindata_type].image
  THEN [kind |-> "none", root |-> r]
  ELSE [kind |-> "path",
        root |-> [r EXCEPT ![dir].splits[traindata_type].image = @ \cup {bbox}]]

\* ------------------------------------------------------------------ actions

\* What a completed call leaves in the history: its arguments, the label
\* directory and the directory names of the training root when it started, the
\* directory names when it ended, and how it ended.
CallRecord(pr, oc) ==
  [labellocations_path |-> pr.labellocations_path,
   labeldata_path      |-> pr.labeldata_path,
   files               |-> pr.files_at_call,
   dirs_before         |-> DOMAIN pr.root_at_call,
   dirs_after          |-> DOMAIN root',
   dataversion_new     |-> pr.dataversion_new,   \* 0: the call staged nothing
   outcome             |-> oc]

\* The call ends: a return or an exception reaches the caller.
Finish(p, pr, oc) ==
  /\ proc' = [proc EXCEPT ![p] = [pr EXCEPT !.pc = "idle", !.outcome = oc]]
  /\ calls' = Append(calls, CallRecord(pr, oc))

AllIdle == \A p \in DOMAIN proc : proc[p].pc = "idle"

\* Lines 74-87: the call starts; missing input files go to the legacy converter.
Call(p, locations_path, data_path) ==
  /\ proc[p].pc = "idle"
  /\ ncalls < MaxCalls
  /\ ncalls' = ncalls + 1
  /\ UNCHANGED << root, promotions >>
  /\ UNCHANGED maskvars
  /\ LET pr == [IdleProc EXCEPT !.labellocations_path = locations_path,
                                !.labeldata_path = data_path,
                                !.root_at_call = root,
                                !.files_at_call = labelfiles]
         previous == IF calls = << >> THEN << >> ELSE << calls[Len(calls)] >>
     IN  IF locations_path \notin DOMAIN labelfiles \/ data_path \notin DOMAIN labelfiles
         THEN LET conv == convert_traindata_v1tov2(labelfiles, locations_path, data_path)
              IN  IF conv.ok
                  THEN /\ labelfiles' = conv.files
                       /\ proc' = [proc EXCEPT ![p] = [pr EXCEPT !.pc = "discover"]]
                       /\ calls' = previous
                  ELSE /\ labelfiles' = conv.files
                       /\ proc' = [proc EXCEPT ![p] =
                            [pr EXCEPT !.outcome =
                               Raised("Stop: input file(s) don't exist", "none")]]
                       /\ calls' = Append(previous,
                            CallRecord(pr, Raised("Stop: input file(s) don't exist", "none")))
         ELSE /\ UNCHANGED labelfiles
              /\ calls' = previous
              /\ proc' = [proc EXCEPT ![p] = [pr EXCEPT !.pc = "discover"]]

\* Lines 89-129: version discovery and the reuse check.
Resolve(p) ==
  /\ proc[p].pc = "discover"
  /\ UNCHANGED << labelfiles, root, ncalls, promotions >>
  /\ UNCHANGED maskvars
  /\ LET pr == proc[p]
         d  == Discover(root, labelfiles, pr.labellocations_path, pr.labeldata_path)
         found == [pr EXCEPT !.mostrecent = d.mostrecent]
     IN  CASE d.kind = "reuse" ->
                Finish(p, found, Returned(d.mostrecent, d.dataversion_mostrecent))
           [] d.kind = "raise" ->
                Finish(p, found, Raised(d.message, "int"))
           [] d.kind = "new" ->
                /\ proc' = [proc EXCEPT ![p] =
                     [found EXCEPT !.pc = "stage", !.dataversion_new = d.dataversion_new]]
                /\ UNCHANGED calls

\* Staging in place, under the final version name.
busy_dir_final(pr) == Format02d(pr.dataversion_new)

\* output_tmp_basedir = f"{training_dir}{os.sep}{dataversion_new:02d}_BUSY"
busy_dir(pr) == Format02d(pr.dataversion_new) \o BUSY

\* A directory left in place, with all it holds.
rmtree_kept(r, dir) == r

\* os.rmdir: only a directory that holds nothing is removed.
rmtree_if_empty(r, dir) ==
  IF dir \in DOMAIN r /\ DOMAIN r[dir].files = {} /\ DOMAIN r[dir].splits = {}
  THEN Remove(r, dir) ELSE r

\* Only the files directly in the directory are deleted; the directories of
\* the splits stay, with their images and masks.
rmtree_files_only(r, dir) == IF dir \in DOMAIN r THEN [r EXCEPT ![dir].files = << >>] ELSE r

\* if os.path.exists(dir): shutil.rmtree(dir): the directory and all it holds
\* are gone afterwards.
rmtree(r, dir) == IF dir \in DOMAIN r THEN Remove(r, dir) ELSE r

\* Lines 131-153: the staging directory is deleted if present, created, and
\* gets the copies of the two input files; both files are read.
Stage(p) ==
  /\ proc[p].pc = "stage"
  /\ UNCHANGED << labelfiles, ncalls, promotions, calls >>
  /\ UNCHANGED maskvars
  /\ LET pr == proc[p]
         output_tmp_basedir == busy_dir(pr)
         after_rmtree == rmtree(root, output_tmp_basedir)
         after_makedirs == IF output_tmp_basedir \notin DOMAIN after_rmtree
                           THEN Put(after_rmtree, output_tmp_basedir, EmptyDir)
                           ELSE after_rmtree
     IN  /\ root' = [after_makedirs EXCEPT ![output_tmp_basedir] =
                       CopyToDir(CopyToDir(@, pr.labellocations_path,
                                           labelfiles[pr.labellocations_path]),
                                 pr.labeldata_path, labelfiles[pr.labeldata_path])]
         /\ proc' = [proc EXCEPT ![p] =
              [pr EXCEPT !.pc = "split", !.type_idx = 1,
                         !.labellocations_gdf = labelfiles[pr.labellocations_path],
                         !.labeldata_gdf = labelfiles[pr.labeldata_path]]]

\* The accepted boxes of the splits before are kept for the next split.
created_images_gdf_kept(created) == created

\* Lines 177-178: created_images_gdf = gpd.GeoDataFrame(), replacing the
\* frame of the split before.
created_images_gdf_new(created) == << >>

\* Lines 156-180: the split's directories are created and its accepted boxes reset.
StartSplit(p) ==
  /\ proc[p].pc = "split"
  /\ UNCHANGED << labelfiles, ncalls, promotions, calls >>
  /\ UNCHANGED maskvars
  /\ root' = MakeSplitDirs(root, busy_dir(proc[p]), TraindataTypes[proc[p].type_idx])
  /\ proc' = [proc EXCEPT ![p].pc = "tile", ![p].loc_idx = 0,
                          ![p].created_images = created_images_gdf_new(@)]

\* Lines 181-252: one iteration of the tile loop. The fetch and the rasterizer
\* may each raise; an exception ends the call, wrapped.
ProcessLocation(p, fetch_raises, mask_raises) ==
  /\ proc[p].pc = "tile"
  /\ UNCHANGED << labelfiles, ncalls, promotions >>
  /\ UNCHANGED maskvars
  /\ LET pr == proc[p]
         traindata_type == TraindataTypes[pr.type_idx]
         labels_to_use_for_bounds_gdf ==
           LabelsToUseForBounds(pr.labellocations_gdf, traindata_type)
     IN  /\ pr.loc_idx < Len(labels_to_use_for_bounds_gdf)
         /\ LET label_tuple == labels_to_use_for_bounds_gdf[pr.loc_idx + 1]
                img_bbox == TileBox(label_tuple.bounds)
                accepted == [pr EXCEPT !.created_images = Append(@, img_bbox),
                                       !.loc_idx = @ + 1]
                got == getmap_to_file(root, busy_dir(pr), traindata_type, img_bbox)
            IN  IF IntersectsAny(pr.created_images, img_bbox) THEN
                  \* continue: no fetch, the box is not kept
                  /\ ~fetch_raises /\ ~mask_raises
                  /\ proc' = [proc EXCEPT ![p].loc_idx = @ + 1]
                  /\ UNCHANGED << root, calls >>
                ELSE IF fetch_raises \/ got.kind = "raise" THEN
                  /\ ~mask_raises
                  /\ UNCHANGED root
                  /\ Finish(p, accepted,
                            Raised("Error preparing dataset!", "getmap_to_file"))
                ELSE IF got.kind = "none" THEN
                  \* image_filepath is None: no mask is made
                  /\ ~mask_raises
                  /\ UNCHANGED << root, calls >>
                  /\ proc' = [proc EXCEPT ![p] =
                                [accepted EXCEPT !.image_filepath = << >>]]
                ELSE IF mask_raises THEN
                  /\ root' = got.root
                  /\ Finish(p, [accepted EXCEPT !.image_filepath = img_bbox],
                            Raised("Error preparing dataset!", "_create_mask"))
                ELSE
                  /\ root' = [got.root EXCEPT
                                ![busy_dir(pr)].splits[traindata_type] =
                                   create_mask(@, img_bbox)]
                  /\ proc' = [proc EXCEPT ![p] =
                                [accepted EXCEPT !.image_filepath = img_bbox]]
                  /\ UNCHANGED calls

\* The tile loop of a split is exhausted: on to the next split, or to the
\* rename after the last one.
FinishSplit(p) ==
  /\ proc[p].pc = "tile"
  /\ UNCHANGED << labelfiles, root, ncalls, promotions, calls >>
  /\ UNCHANGED maskvars
  /\ LET pr == proc[p]
     IN  /\ pr.loc_idx = Len(LabelsToUseForBounds(pr.labellocations_gdf,
                                                  TraindataTypes[pr.type_idx]))
         /\ IF pr.type_idx < Len(TraindataTypes)
            THEN proc' = [proc EXCEPT ![p].pc = "split", ![p].type_idx = @ + 1]
            ELSE proc' = [proc EXCEPT ![p].pc = "promote", ![p].splits_done = TRUE]

DirIsEmpty(dir) == DOMAIN dir.files = {} /\ DOMAIN dir.splits = {}

\* os.rename(src, dst) of directories: fails when src is gone or when dst is a
\* directory that is not empty.
RenameFails(r, src, dst) ==
  \/ src \notin DOMAIN r
  \/ (dst \in DOMAIN r /\ ~DirIsEmpty(r[dst]))

\* Lines 254-258: the staging directory is renamed to the final version name.
Promote(p) ==
  /\ proc[p].pc = "promote"
  /\ UNCHANGED << labelfiles, ncalls >>
  /\ UNCHANGED maskvars
  /\ LET pr == proc[p]
         output_tmp_basedir == busy_dir(pr)
         output_basedir == Format02d(pr.dataversion_new)
     IN  IF RenameFails(root, output_tmp_basedir, output_basedir)
         THEN /\ UNCHANGED << root, promotions >>
              /\ Finish(p, pr, Raised("OSError", "os.rename"))
         ELSE /\ root' = Put(Remove(root, output_tmp_basedir), output_basedir,
                             root[output_tmp_basedir])
              /\ promotions' = Append(promotions, pr.dataversion_new)
              /\ Finish(p, pr, Returned(output_basedir, pr.dataversion_new))

\* ------------------------------------------------------------ the environment

\* Between calls the user edits an input file ...
EditLocations(locations) ==
  /\ AllIdle /\ ncalls < MaxCalls
  /\ \E name \in LocationsNames \cap DOMAIN labelfiles :
       /\ labelfiles[name] # locations
       /\ labelfiles' = [labelfiles EXCEPT ![name] = locations]
  /\ UNCHANGED << root, proc, ncalls, promotions, calls >>
  /\ UNCHANGED maskvars

EditData(data) ==
  /\ AllIdle /\ ncalls < MaxCalls
  /\ DataName \in DOMAIN labelfiles
  /\ labelfiles[DataName] # data
  /\ labelfiles' = [labelfiles EXCEPT ![DataName] = data]
  /\ UNCHANGED << root, proc, ncalls, promotions, calls >>
  /\ UNCHANGED maskvars

\* ... or renames the locations file, leaving its content as it is.
RenameLocations ==
  /\ AllIdle /\ ncalls < MaxCalls
  /\ \E old \in LocationsNames \cap DOMAIN labelfiles :
     \E new \in LocationsNames \ DOMAIN labelfiles :
       labelfiles' = Put(Remove(labelfiles, old), new, labelfiles[old])
  /\ UNCHANGED << root, proc, ncalls, promotions, calls >>
  /\ UNCHANGED maskvars

Next ==
  \/ \E p \in Procs : \E locations_path \in LocationsNames :
       Call(p, locations_path, DataName)
  \/ \E p \in Procs : Resolve(p)
  \/ \E p \in Procs : Stage(p)
  \/ \E p \in Procs : StartSplit(p)
  \/ \E p \in Procs : \E fetch_raises \in BOOLEAN, mask_raises \in BOOLEAN :
       ProcessLocation(p, fetch_raises, mask_raises)
  \/ \E p \in Procs : FinishSplit(p)
  \/ \E p \in Procs : Promote(p)
  \/ \E locations \in LocationsTables : EditLocations(locations)
  \/ \E data \in DataTables : EditData(data)
  \/ RenameLocations

Spec == Init /\ [][Next]_vars

\* ------------------------------------------------- two builders on one root

\* Two processes run prepare_traindatasets on the same training root and the
\* same label files, each once; nothing orders their steps.
Builders == {"builder", "second"}

\* One version exists, built from other inputs than the current ones, so that
\* a call has to build.
InitTwo ==
  /\ root = RootAfter(1)
  /\ labelfiles = ("subject_labellocations.gpkg" :> LocationsB) @@ (DataName :> DataA)
  /\ proc = [p \in Builders |-> IdleProc]
  /\ ncalls = 0
  /\ promotions = << >>
  /\ calls = << >>
  /\ rasters = << >>
  /\ maskcall = NoMaskCall

NextTwo ==
  \/ \E p \in Builders :
       /\ proc[p].outcome = NoOutcome
       /\ Call(p, "subject_labellocations.gpkg", DataName)
  \/ \E p \in Builders : Resolve(p)
  \/ \E p \in Builders : Stage(p)
  \/ \E p \in Builders : StartSplit(p)
  \/ \E p \in Builders : \E fetch_raises \in BOOLEAN, mask_raises \in BOOLEAN :
       ProcessLocation(p, fetch_raises, mask_raises)
  \/ \E p \in Builders : FinishSplit(p)
  \/ \E p \in Builders : Promote(p)

SpecTwo == InitTwo /\ [][NextTwo]_vars

\* ------------------------------------------- training roots with other names

\* Directory names that start with a digit and are not numbers.
ERROR_DIR == << "0", "1", "_", "E", "R", "R", "O", "R" >>

ABC_DIR == << "1", "a", "b", "c" >>

\* A legacy directory name, train_<n>.
LegacyDir(digits) == TRAIN_ \o digits

\* The sets of directory names found in the training root: none, only a
\* staging directory, version directories beside the other names, and
\* legacy directories with and without a version directory.
OddNameSets ==
  { {},
    {Format02d(1) \o BUSY},
    {Format02d(1), ERROR_DIR},
    {Format02d(2), ERROR_DIR},
    {ABC_DIR},
    {Format02d(1), ABC_DIR},
    {LegacyDir(Format02d(2))},
    {LegacyDir(Format02d(7)), Format02d(1)},
    {LegacyDir(Format02d(99)), LegacyDir(Format02d(100))} }

\* A training root with these directories: the version directories as a
\* build left them, the others empty.
RootNamed(names) ==
  [n \in names |->
     IF IsIntLiteral(n)
     THEN BuiltDir("subject_labellocations.gpkg", LocationsA, DataA)
     ELSE EmptyDir]

InitNames ==
  /\ \E names \in OddNameSets : root = RootNamed(names)
  /\ \E locations \in LocationsTables :
       labelfiles = ("subject_labellocations.gpkg" :> locations) @@ (DataName :> DataA)
  /\ proc = [p \in Procs |-> IdleProc]
  /\ ncalls = 0
  /\ promotions = << >>
  /\ calls = << >>
  /\ rasters = << >>
  /\ maskcall = NoMaskCall

SpecNames == InitNames /\ [][Next]_vars

\* ------------------------------------------- label directories in the v1 format

\* One record of a legacy label file.
LegacyLabel(xmin, ymin, usebounds, burninmask) ==
  [bounds |-> << xmin, ymin, xmin + 1600, ymin + 1600 >>,
   usebounds |-> usebounds, burninmask |-> burninmask]

\* The legacy files, where present: the train file has a location that is
\* also burned and a label that is only burned, the validation file a label
\* that is only burned, the test file a location.
LegacyFiles ==
  (LegacyTrainName :> << LegacyLabel(0, 0, 1, 1), LegacyLabel(323, 5, 0, 1) >>)
    @@ (LegacyValidationName :> << LegacyLabel(4000, -7, 0, 1) >>)
    @@ (LegacyTestName :> << LegacyLabel(-9000, 16, 1, 0) >>)

\* A label directory holding some of the legacy files and, of the files in
\* the new format, none or only the locations file; the training root is
\* empty.
InitLegacy ==
  /\ \E present \in SUBSET DOMAIN LegacyFiles, with_locations \in BOOLEAN :
       labelfiles =
         [name \in present |-> LegacyFiles[name]]
           @@ (IF with_locations
               THEN "subject_labellocations.gpkg" :> LocationsA ELSE << >>)
  /\ root = RootAfter(0)
  /\ proc = [p \in Procs |-> IdleProc]
  /\ ncalls = 0
  /\ promotions = << >>
  /\ calls = << >>
  /\ rasters = << >>
  /\ maskcall = NoMaskCall

SpecLegacy == InitLegacy /\ [][Next]_vars

\* -------------------------------------------------- create_masks_for_images

\* Lines 329-409. The function is followed on the variables of the builder:
\* labelfiles is the directory of input_vector_label_filepath, rasters the
\* input image directory with its files, root the directory in which the
\* siblings <output_basedir>_* live. output_basedir is <...>/train, so the
\* siblings are train_01, train_01_BUSY, ...

input_vector_label_filename == "subject_labels.shp"

input_image_dir == "images"

\* What the label file can hold.
LabelContents ==
  { << LegacyLabel(0, 0, 1, 1) >>,
    << LegacyLabel(0, 0, 1, 1), LegacyLabel(323, 5, 0, 1) >> }

\* The input image directory: two images and a file that is no .tif.
InputImages ==
  (input_image_dir :> [ext |-> "/"])
    @@ ("images/a.tif" :> [ext |-> ".tif"])
    @@ ("images/b.tif" :> [ext |-> ".tif"])
    @@ ("images/a.tfw" :> [ext |-> ".tfw"])

\* glob.glob(f"{input_image_dir}{os.sep}*.tif")
GlobTif(files) == {path \in DOMAIN files : files[path].ext = ".tif"}

\* glob.glob(f"{output_basedir}_*")
GlobOutputDirs(r) == {n \in DOMAIN r : StartsWith(n, TRAIN_)}

\* An output directory: the files directly in it, and its image and mask
\* subdirectories.
EmptyOutputDir == [files |-> << >>, image |-> {}, mask |-> {}]

\* Staging under the final name.
output_tmp_dir_final(dataversion_new) == TRAIN_ \o Format02d(dataversion_new)

\* output_tmp_dir = f"{output_basedir}_{dataversion_new:02d}_BUSY"
output_tmp_dir(dataversion_new) == TRAIN_ \o Format02d(dataversion_new) \o BUSY

\* Lines 347-368: the version to build from the sibling names, or the most
\* recent output directory when it holds an equal copy of the label file, or
\* the ValueError of int().
DiscoverOutputDirs(r, files) ==
  LET output_dirs == NotBusy(GlobOutputDirs(r))
  IN  IF output_dirs = {} THEN
        [kind |-> "new", dataversion_new |-> 1, mostrecent |-> << >>]
      ELSE
        LET output_dir_mostrecent == SortedReverseFirst(output_dirs)
            number == SplitUnderscore1(output_dir_mostrecent)
        IN  IF ~IsIntLiteral(number) THEN
              [kind |-> "raise", message |-> "ValueError",
               mostrecent |-> output_dir_mostrecent]
            ELSE IF /\ input_vector_label_filename
                         \in DOMAIN r[output_dir_mostrecent].files
                    /\ cmp(files[input_vector_label_filename],
                           r[output_dir_mostrecent].files[input_vector_label_filename])
            THEN [kind |-> "reuse", dataversion_mostrecent |-> IntOf(number),
                  mostrecent |-> output_dir_mostrecent]
            ELSE [kind |-> "new", dataversion_new |-> IntOf(number) + 1,
                  mostrecent |-> output_dir_mostrecent]

\* The locals of create_masks_for_images before the call.
IdleImagesProc ==
  [pc              |-> "idle",
   dataversion_new |-> 0,
   todo            |-> {},      \* input_image_filepaths not yet iterated
   root_at_call    |-> << >>,
   outcome         |-> NoOutcome]

\* The function ran to its end: it has no return statement there.
ReturnedNone == [kind |-> "return None"]

\* What a completed call leaves in the history.
ImagesCallRecord(pr, oc) ==
  [labels          |-> labelfiles,
   dataversion_new |-> pr.dataversion_new,
   dirs_before     |-> DOMAIN pr.root_at_call,
   dirs_after      |-> DOMAIN root',
   outcome         |-> oc]

FinishImages(p, pr, oc) ==
  /\ proc' = [proc EXCEPT ![p] = [pr EXCEPT !.pc = "idle", !.outcome = oc]]
  /\ calls' = Append(IF calls = << >> THEN << >> ELSE << calls[Len(calls)] >>,
                     ImagesCallRecord(pr, oc))

\* Lines 338-368: the two input checks, version discovery and the reuse
\* check.
CreateMasksCall(p) ==
  /\ proc[p].pc = "idle"
  /\ ncalls < MaxCalls
  /\ ncalls' = ncalls + 1
  /\ UNCHANGED << labelfiles, root, promotions, rasters, maskcall >>
  /\ LET pr == [IdleImagesProc EXCEPT !.root_at_call = root]
     IN  IF input_vector_label_filename \notin DOMAIN labelfiles THEN
           FinishImages(p, pr, Raised("Input file doesn't exist", "none"))
         ELSE IF input_image_dir \notin DOMAIN rasters THEN
           FinishImages(p, pr, Raised("Input image dir doesn't exist", "none"))
         ELSE
           LET d == DiscoverOutputDirs(root, labelfiles)
           IN  CASE d.kind = "reuse" ->
                      FinishImages(p, pr, Returned(d.mostrecent, d.dataversion_mostrecent))
                 [] d.kind = "raise" ->
                      FinishImages(p, pr, Raised(d.message, "int"))
                 [] d.kind = "new" ->
                      /\ proc' = [proc EXCEPT ![p] =
                           [pr EXCEPT !.pc = "stage",
                                      !.dataversion_new = d.dataversion_new]]
                      /\ UNCHANGED calls

\* Lines 370-393: the staging directory is deleted if present, created with
\* its mask and image directories, and gets the copy of the label file.
CreateMasksStage(p) ==
  /\ proc[p].pc = "stage"
  /\ UNCHANGED << labelfiles, ncalls, promotions, calls, rasters, maskcall >>
  /\ LET dir == output_tmp_dir(proc[p].dataversion_new)
         after_rmtree == rmtree(root, dir)
     IN  /\ root' = Put(after_rmtree, dir,
                        [EmptyOutputDir EXCEPT !.files =
                           (input_vector_label_filename
                              :> labelfiles[input_vector_label_filename])])
         /\ proc' = [proc EXCEPT ![p].pc = "image", ![p].todo = GlobTif(rasters)]

\* Lines 396-409: one iteration of the loop over the input images: the image
\* is copied and its mask rasterized; an exception of the rasterizer leaves
\* the function as it is.
CreateMasksImage(p, path, mask_raises) ==
  /\ proc[p].pc = "image"
  /\ path \in proc[p].todo
  /\ UNCHANGED << labelfiles, ncalls, promotions, rasters, maskcall >>
  /\ LET dir == output_tmp_dir(proc[p].dataversion_new)
         copied == [root EXCEPT ![dir].image = @ \cup {path}]
     IN  IF mask_raises THEN
           /\ root' = copied
           /\ FinishImages(p, proc[p], Raised("rasterize", "_create_mask"))
         ELSE
           /\ root' = [copied EXCEPT ![dir] = create_mask(@, path)]
           /\ proc' = [proc EXCEPT ![p].todo = @ \ {path}]
           /\ UNCHANGED calls

\* Line 409 was the last statement: the function ends, nothing is renamed.
CreateMasksReturn(p) ==
  /\ proc[p].pc = "image"
  /\ proc[p].todo = {}
  /\ UNCHANGED << labelfiles, root, ncalls, promotions, rasters, maskcall >>
  /\ FinishImages(p, proc[p], ReturnedNone)

\* Between calls the user edits the label file.
EditLabels(content) ==
  /\ AllIdle /\ ncalls < MaxCalls
  /\ input_vector_label_filename \in DOMAIN labelfiles
  /\ labelfiles[input_vector_label_filename] # content
  /\ labelfiles' = [labelfiles EXCEPT ![input_vector_label_filename] = content]
  /\ UNCHANGED << root, proc, ncalls, promotions, calls, rasters, maskcall >>

\* The siblings of the output directory before the first call: none, a
\* staging directory left behind, or a version directory that something else
\* put there, holding a copy of a label file.
OutputDirSets ==
  { << >>,
    (output_tmp_dir(1) :> [EmptyOutputDir EXCEPT !.image = {"images/old.tif"}]),
    (output_tmp_dir_final(1) :>
       [files |-> (input_vector_label_filename :> << LegacyLabel(0, 0, 1, 1) >>),
        image |-> {"images/a.tif"}, mask |-> {"images/a.tif"}]) }

InitImages ==
  /\ root \in OutputDirSets
  /\ \E content \in LabelContents, present \in BOOLEAN :
       labelfiles = IF present THEN (input_vector_label_filename :> content)
                    ELSE << >>
  /\ rasters \in {InputImages, << >>}
  /\ proc = [p \in Procs |-> IdleImagesProc]
  /\ ncalls = 0
  /\ promotions = << >>
  /\ calls = << >>
  /\ maskcall = NoMaskCall

NextImages ==
  \/ \E p \in Procs : CreateMasksCall(p)
  \/ \E p \in Procs : CreateMasksStage(p)
  \/ \E p \in Procs : \E path \in DOMAIN rasters, mask_raises \in BOOLEAN :
       CreateMasksImage(p, path, mask_raises)
  \/ \E p \in Procs : CreateMasksReturn(p)
  \/ \E content \in LabelContents : EditLabels(content)

SpecImages == InitImages /\ [][NextImages]_vars

\* --------------------------------------------------- postprocess_prediction

\* src/postprocess.py, lines 94-415. The function is followed on rasters, the
\* files it reads and writes, keyed by directory, prefix and name; proc holds
\* the caller's prediction array, calls the last completed call. Pixel
\* values are tenths: 5 is 0.5, 10 is 1.0. input_mask_dir has its default,
\* None.

PredRows == 1..3

PredCols == 1..3

\* thresshold_ok = 0.5, in tenths.
thresshold_ok == 5

\* The predictions: one channel with a corner pixel and the centre pixel each
\* 0, 0.5 or 0.9 and the rest 0; one channel with a ring of 0.9 around a
\* centre of 0; and a prediction of two channels.
Predictions ==
  {[n_channels |-> 1,
    data |-> [r \in PredRows |-> [c \in PredCols |->
                IF r = 1 /\ c = 1 THEN corner
                ELSE IF r = 2 /\ c = 2 THEN centre ELSE 0]]] :
     corner \in {0, 5, 9}, centre \in {0, 5, 9}}
  \cup {[n_channels |-> 1,
         data |-> [r \in PredRows |-> [c \in PredCols |->
                     IF r = 2 /\ c = 2 THEN 0 ELSE 9]]],
        [n_channels |-> 2,
         data |-> [r \in PredRows |-> [c \in PredCols |-> 0]]]}

BorderPixels == {0, 1}

\* The path of a file: its directory, the prefix of its name (-1: none,
\* 1001: "1.001_", else thousandths) and the rest of its name.
FilePath(dir, prefix, name) == [dir |-> dir, prefix |-> prefix, name |-> name]

image_pred_filepath == FilePath("tmp", -1, "image_pred.npy")

the_image_filepath == FilePath("images", -1, "image.tif")

output_dir == FilePath("out", -1, "")

\* Lines 140-144: the first and last border_pixels_to_ignore rows and columns
\* are set to 0.
ZeroBorders(pred, border_pixels_to_ignore) ==
  [r \in PredRows |-> [c \in PredCols |->
     IF border_pixels_to_ignore > 0
        /\ (\/ r <= border_pixels_to_ignore \/ r > 3 - border_pixels_to_ignore
            \/ c <= border_pixels_to_ignore \/ c > 3 - border_pixels_to_ignore)
     THEN 0 ELSE pred[r][c]]]

\* np.any(pred > thresshold_ok)
AnyAbove(pred) == \E r \in PredRows, c \in PredCols : pred[r][c] > thresshold_ok

\* Lines 50-67: every pixel gets a marker (1 below the threshold, 2 from the
\* threshold on), so the watershed returns the markers; segmentation - 1 has
\* its holes filled: a background pixel enclosed by foreground on its four
\* sides (on this grid only the centre can be one) becomes foreground.
region_segmentation(predicted_mask) ==
  LET seg == [r \in PredRows |-> [c \in PredCols |->
                IF predicted_mask[r][c] >= thresshold_ok THEN 10 ELSE 0]]
  IN  [r \in PredRows |-> [c \in PredCols |->
         IF r = 2 /\ c = 2 /\ seg[1][2] = 10 /\ seg[3][2] = 10
            /\ seg[2][1] = 10 /\ seg[2][3] = 10
         THEN 10 ELSE seg[r][c]]]

\* Lines 69-73.
thresshold(mask) ==
  [r \in PredRows |-> [c \in PredCols |->
     IF mask[r][c] >= thresshold_ok THEN 10 ELSE 0]]

\* The prefix for pct_black: "1.001_" when everything is black, else
\* f"{pct_black:0.3f}_".
PctBlackPrefix(image_pred) ==
  LET white == Cardinality({rc \in PredRows \X PredCols : image_pred[rc[1]][rc[2]] = 10})
  IN  IF white = 0 THEN 1001 ELSE (2000 * (9 - white) + 9) \div 18

\* The function returns with evaluate_mode false and everything black only
\* after it made sure the output directory exists.
ReturnsBeforeMkdirNever(evaluate_mode, all_black) == FALSE

\* Line 163: if not evaluate_mode and all_black
ReturnsBeforeMkdir(evaluate_mode, all_black) == ~evaluate_mode /\ all_black

\* Lines 94-415: what a call does to the files and to the caller's array,
\* and how it ends.
postprocess_prediction(files, arr, use_arr, use_filepath, border_pixels_to_ignore, evaluate_mode, simplified) ==
  IF ~use_arr /\ ~use_filepath THEN
    [files |-> files, arr |-> arr, outcome |-> Raised("needs either", "none")]
  ELSE IF ~use_arr /\ image_pred_filepath \notin DOMAIN files THEN
    [files |-> files, arr |-> arr, outcome |-> Raised("FileNotFoundError", "np.load")]
  ELSE
    LET loaded == IF use_arr THEN arr ELSE files[image_pred_filepath]
        after_remove == IF use_arr THEN files ELSE Remove(files, image_pred_filepath)
        image_pred_orig == ZeroBorders(loaded.data, border_pixels_to_ignore)
        \* the borders are zeroed in place: the caller's array changes too
        arr_zeroed == IF use_arr THEN [arr EXCEPT !.data = image_pred_orig] ELSE arr
        cleaned == region_segmentation(image_pred_orig)
        all_black == \/ ~AnyAbove(image_pred_orig)
                     \/ ~AnyAbove(cleaned)
        after_mkdir == IF output_dir \in DOMAIN after_remove THEN after_remove
                       ELSE Put(after_remove, output_dir, [kind |-> "dir"])
        \* thresshold works in place as well
        image_pred == IF ~AnyAbove(image_pred_orig)
                      THEN thresshold(image_pred_orig) ELSE cleaned
        arr_end == IF use_arr /\ ~AnyAbove(image_pred_orig)
                   THEN [arr EXCEPT !.data = image_pred] ELSE arr_zeroed
        \* pct_black = 1 when all_black, whatever thresshold made of 0.5
        pred_prefix_str == IF ~evaluate_mode THEN -1
                           ELSE IF all_black THEN 1001
                           ELSE PctBlackPrefix(image_pred)
        image_copy == FilePath("out", pred_prefix_str, "image.tif")
        after_copy == IF evaluate_mode /\ image_copy \notin DOMAIN after_mkdir
                      THEN Put(after_mkdir, image_copy, files[the_image_filepath])
                      ELSE after_mkdir
        transform_a == files[the_image_filepath].transform_a
        after_pred ==
          Put(after_copy, FilePath("out", pred_prefix_str, "image_pred.tif"),
              [kind |-> "tif", data |-> image_pred_orig])
        geoms == AnyAbove(image_pred)
        after_geoms ==
          IF ~evaluate_mode
          THEN Put(after_pred, FilePath("out", pred_prefix_str, "image_pred_cleaned.geojson"),
                   [kind |-> "geojson", data |-> image_pred])
          ELSE IF transform_a # 0 /\ geoms /\ simplified
          THEN Put(after_pred,
                   FilePath("out", pred_prefix_str, "image_pred_cleaned_simpl_vis.tif"),
                   [kind |-> "tif", data |-> image_pred])
          ELSE after_pred
    IN  IF loaded.n_channels > 1 THEN
          [files |-> after_remove, arr |-> arr,
           outcome |-> Raised("Not implemented", "n_channels")]
        ELSE IF ReturnsBeforeMkdir(evaluate_mode, all_black) THEN
          [files |-> after_remove, arr |-> arr_zeroed, outcome |-> ReturnedNone]
        ELSE IF evaluate_mode /\ all_black THEN
          [files |-> after_copy, arr |-> arr_end, outcome |-> ReturnedNone]
        ELSE IF transform_a = 0 /\ ~evaluate_mode THEN
          [files |-> after_mkdir, arr |-> arr_end,
           outcome |-> Raised("No transform found", "none")]
        ELSE
          [files |-> after_geoms, arr |-> arr_end, outcome |-> ReturnedNone]

\* One call of postprocess_prediction.
Postprocess(p, use_arr, use_filepath, border_pixels_to_ignore, evaluate_mode, simplified) ==
  /\ ncalls < MaxCalls
  /\ ncalls' = ncalls + 1
  /\ UNCHANGED << labelfiles, root, promotions, maskcall >>
  /\ LET done == postprocess_prediction(rasters, proc[p].image_pred_arr, use_arr,
                                        use_filepath, border_pixels_to_ignore,
                                        evaluate_mode, simplified)
     IN  /\ rasters' = done.files
         /\ proc' = [proc EXCEPT ![p].image_pred_arr = done.arr]
         /\ calls' = << [use_arr |-> use_arr, use_filepath |-> use_filepath,
                         border_pixels_to_ignore |-> border_pixels_to_ignore,
                         evaluate_mode |-> evaluate_mode,
                         files_before |-> rasters,
                         arr_before |-> proc[p].image_pred_arr,
                         outcome |-> done.outcome] >>

\* The prediction is in the caller's array and in the temporary file; the
\* image has a transform or none; the output directory exists or not.
InitPost ==
  /\ \E pred \in Predictions, a \in {0, 2}, out_exists \in BOOLEAN :
       /\ proc = [p \in Procs |-> [pc |-> "idle", image_pred_arr |-> pred]]
       /\ rasters =
            (image_pred_filepath :> pred)
              @@ (the_image_filepath :> [kind |-> "tif", transform_a |-> a])
              @@ (IF out_exists THEN output_dir :> [kind |-> "dir"] ELSE << >>)
  /\ labelfiles = << >>
  /\ root = << >>
  /\ ncalls = 0
  /\ promotions = << >>
  /\ calls = << >>
  /\ maskcall = NoMaskCall

NextPost ==
  \E p \in Procs, use_arr \in BOOLEAN, use_filepath \in BOOLEAN :
  \E border_pixels_to_ignore \in BorderPixels, evaluate_mode \in BOOLEAN :
  \E simplified \in BOOLEAN :
    Postprocess(p, use_arr, use_filepath, border_pixels_to_ignore, evaluate_mode,
                simplified)

SpecPost == InitPost /\ [][NextPost]_vars

\* ------------------------------------------------------------- _create_mask

\* Raster coordinates are whole CRS units. A transform is north up: pixel
\* (row, col), counted from 0, has its upper left corner at
\* (c + a*col, f + e*row).

\* Images are up to MaxSide pixels wide and up to MaxSide pixels high.
MaxSide == 3

\* burn_value: int = 255
burn_value == 255

Transforms == {[a |-> 2, e |-> -2, c |-> x0, f |-> 6] : x0 \in {0, 4}}

\* The images the tile fetch can have written: three bands, any size.
ImageFiles ==
  {[width |-> w, height |-> h, transform |-> t, crs |-> "epsg:31370", count |-> 3] :
     w \in 1..MaxSide, h \in 1..MaxSide, t \in Transforms}

\* The label polygons to burn, as boxes (xmin, ymin, xmax, ymax): none, a
\* strip at the left, a strip at the top, everything.
LabelLists ==
  { << >>,
    << << -100, -100, 6, 100 >> >>,
    << << -100, 4, 100, 100 >> >>,
    << << -100, -100, 100, 100 >> >> }

\* minimum_pct_labeled, in hundredths.
MinimumPcts == {0, 50, 100}

input_image_filepath == "train/image/tile.tif"

output_mask_filepath == "train/mask/tile.tif"

ImagecopyPaths == {"None", "train/imagecopy/tile.tif"}

\* Twice the centre of pixel (row, col) of a raster with this transform.
PixelCentre2(transform, row, col) ==
  << 2 * transform.c + transform.a * (2 * col + 1),
     2 * transform.f + transform.e * (2 * row + 1) >>

\* rasterio.features.rasterize(shapes, fill=0, default_value, transform,
\* out_shape): an array of out_shape[1] rows and out_shape[2] columns, in
\* which the pixels whose centre lies in a shape have default_value.
rasterize(shapes, default_value, transform, out_shape) ==
  [row \in 1..out_shape[1] |->
     [col \in 1..out_shape[2] |->
        LET centre == PixelCentre2(transform, row - 1, col - 1)
        IN  IF \E k \in 1..Len(shapes) :
                 /\ 2 * shapes[k][1] < centre[1] /\ centre[1] < 2 * shapes[k][3]
                 /\ 2 * shapes[k][2] < centre[2] /\ centre[2] < 2 * shapes[k][4]
            THEN default_value ELSE 0]]

\* np.size(burned, 0) * np.size(burned, 1)
NbPixels(burned) == Len(burned) * (IF burned = << >> THEN 0 ELSE Len(burned[1]))

\* nb_pixels - np.sum(burned == 0)
NbPixelsData(burned) ==
  NbPixels(burned)
    - Cardinality({rc \in (1..Len(burned)) \X (1..MaxSide + 1) :
                     rc[2] <= Len(burned[rc[1]]) /\ burned[rc[1]][rc[2]] = 0})

\* The mask has to hold more than the minimum.
MeetsMinimumStrictly(nb_pixels_data, nb_pixels, minimum_pct_labeled) ==
  nb_pixels_data * 100 > minimum_pct_labeled * nb_pixels

\* nb_pixels_data / nb_pixels >= minimum_pct_labeled
MeetsMinimum(nb_pixels_data, nb_pixels, minimum_pct_labeled) ==
  nb_pixels_data * 100 >= minimum_pct_labeled * nb_pixels

\* An existing mask is never made again.
SkipsExistingAlways(files, mask_filepath, force_arg) == mask_filepath \in DOMAIN files

\* force is False and os.path.exists(output_mask_filepath)
SkipsExisting(files, mask_filepath, force_arg) ==
  force_arg = FALSE /\ mask_filepath \in DOMAIN files

\* Lines 411-474. The result: the files afterwards, the value returned, the
\* files opened for reading, and the array rasterized (empty: none was).
_create_mask(files, input_vector_label_list, image_filepath, mask_filepath, imagecopy_filepath, default_value, minimum_pct_labeled, force_arg) ==
  IF SkipsExisting(files, mask_filepath, force_arg)
  THEN [files |-> files, result |-> "None", opened |-> {}, burned |-> << >>]
  ELSE
    LET image_ds == files[image_filepath]
        image_transform_affine == image_ds.transform
        \* profile.update(dtype=rio.uint8, count=1, compress='lzw', nodata=0)
        image_output_profile ==
          [width |-> image_ds.width, height |-> image_ds.height,
           transform |-> image_ds.transform, crs |-> image_ds.crs, count |-> 1]
        burned == rasterize(input_vector_label_list, default_value,
                            image_transform_affine,
                            << image_output_profile.width, image_output_profile.height >>)
        nb_pixels == NbPixels(burned)
        nb_pixels_data == NbPixelsData(burned)
        \* rio.open(output_mask_filepath, 'w', **profile) and write(burned, 1):
        \* the dataset has the size of the profile, the band is given burned
        mask_ds == [width |-> image_output_profile.width,
                    height |-> image_output_profile.height,
                    transform |-> image_output_profile.transform,
                    crs |-> image_output_profile.crs,
                    count |-> image_output_profile.count,
                    written |-> burned]
        with_mask == Put(files, mask_filepath, mask_ds)
    IN  IF MeetsMinimum(nb_pixels_data, nb_pixels, minimum_pct_labeled)
        THEN [files  |-> IF imagecopy_filepath # "None"
                         THEN Put(with_mask, imagecopy_filepath, files[image_filepath])
                         ELSE with_mask,
              result |-> "True", opened |-> {image_filepath}, burned |-> burned]
        ELSE [files |-> files, result |-> "False",
              opened |-> {image_filepath}, burned |-> burned]

\* One call of _create_mask for the tile's image.
CreateMask(input_vector_label_list, imagecopy_filepath, minimum_pct_labeled, force_arg) ==
  /\ UNCHANGED << labelfiles, root, proc, ncalls, promotions, calls >>
  /\ LET done == _create_mask(rasters, input_vector_label_list, input_image_filepath,
                              output_mask_filepath, imagecopy_filepath, burn_value,
                              minimum_pct_labeled, force_arg)
     IN  /\ rasters' = done.files
         /\ maskcall' =
              [input_vector_label_list   |-> input_vector_label_list,
               output_imagecopy_filepath |-> imagecopy_filepath,
               minimum_pct_labeled       |-> minimum_pct_labeled,
               force                     |-> force_arg,
               rasters_before            |-> rasters,
               result                    |-> done.result,
               opened                    |-> done.opened,
               burned                    |-> done.burned]

\* The tile's image is in place, no mask yet.
InitMask ==
  /\ \E image \in ImageFiles : rasters = (input_image_filepath :> image)
  /\ maskcall = NoMaskCall
  /\ labelfiles = << >>
  /\ root = << >>
  /\ proc = [p \in Procs |-> IdleProc]
  /\ ncalls = 0
  /\ promotions = << >>
  /\ calls = << >>

NextMask ==
  \E input_vector_label_list \in LabelLists, imagecopy_filepath \in ImagecopyPaths,
     minimum_pct_labeled \in MinimumPcts, force_arg \in BOOLEAN :
    CreateMask(input_vector_label_list, imagecopy_filepath, minimum_pct_labeled, force_arg)

SpecMask == InitMask /\ [][NextMask]_vars

\* ------------------------------------------------------------------ claims

\* The version directories of a training root as the specification means
\* them: the purely numeric names, ordered by their number.
VersionNames(r) == {n \in DOMAIN r : IsIntLiteral(n)}

NewestVersion(r) ==
  CHOOSE n \in VersionNames(r) : \A o \in VersionNames(r) : IntOf(o) <= IntOf(n)

WithoutBusy(r) == [n \in {m \in DOMAIN r : ~EndsWith(m, BUSY)} |-> r[n]]

Max2(a, b) == IF a >= b THEN a ELSE b

Min2(a, b) == IF a <= b THEN a ELSE b

\* Two closed boxes share a point: on each axis the larger lower end is not
\* beyond the smaller upper end.
SharePoint(a, b) ==
  /\ Max2(a[1], b[1]) <= Min2(a[3], b[3])
  /\ Max2(a[2], b[2]) <= Min2(a[4], b[4])

\* The last call of process p has ended, and how.
Ended(p) == proc[p].pc = "idle" /\ proc[p].outcome.kind # "none"

\* C1: the promoted version numbers are strictly increasing, and a promotion
\* never targets a version directory that already exists.
C1_VersionMonotonic ==
  /\ \A i, j \in 1..Len(promotions) : i < j => promotions[i] < promotions[j]
  /\ \A p \in Procs :
       proc[p].pc = "promote" => Format02d(proc[p].dataversion_new) \notin DOMAIN root

\* C2: when the fetch or the rasterizer raised, at the exit of the call no
\* directory without the _BUSY suffix has been created or modified, and the
\* staging directory of the build is still there.
C2_FailureAtomic ==
  \A p \in Procs :
    (Ended(p) /\ proc[p].outcome.kind = "raise"
       /\ proc[p].outcome.cause \in {"getmap_to_file", "_create_mask"})
    => /\ WithoutBusy(root) = WithoutBusy(proc[p].root_at_call)
       /\ Format02d(proc[p].dataversion_new) \o BUSY \in DOMAIN root

\* C2 witness: the rasterizer raised in the validation split, with a version
\* directory present that the build could have touched.
C2_Witness ==
  \E p \in Procs :
    /\ Ended(p) /\ proc[p].outcome.kind = "raise"
    /\ proc[p].outcome.cause = "_create_mask"
    /\ proc[p].type_idx = 2
    /\ VersionNames(root) # {}

\* C3: two calls in a row with the same input files, the first one returning:
\* the second creates no directory and both return the same.
C3_IdempotentReuse ==
  Len(calls) = 2 =>
    LET first == calls[Len(calls) - 1]
        second == calls[Len(calls)]
    IN  (/\ first.outcome.kind = "return"
         /\ second.files = first.files
         /\ second.labellocations_path = first.labellocations_path
         /\ second.labeldata_path = first.labeldata_path)
        => /\ second.outcome = first.outcome
           /\ second.dirs_after \subseteq second.dirs_before

\* The directory holds a copy of the content, under whatever name.
HoldsCopy(dir, content) == \E name \in DOMAIN dir.files : dir.files[name] = content

\* C4: when an input file differs from its copy in the most recent version
\* directory, a call that returns has built the version after the most recent.
C4_ChangeDetection ==
  \A p \in Procs :
    (/\ Ended(p) /\ proc[p].outcome.kind = "return"
     /\ VersionNames(proc[p].root_at_call) # {}
     /\ LET newest == proc[p].root_at_call[NewestVersion(proc[p].root_at_call)]
        IN  \/ ~HoldsCopy(newest, proc[p].files_at_call[proc[p].labellocations_path])
            \/ ~HoldsCopy(newest, proc[p].files_at_call[proc[p].labeldata_path]))
    => LET next == IntOf(NewestVersion(proc[p].root_at_call)) + 1
       IN  /\ proc[p].outcome = Returned(Format02d(next), next)
           /\ Format02d(next) \notin DOMAIN proc[p].root_at_call
           /\ Format02d(next) \in DOMAIN root

\* C5: version discovery never selects a directory whose name ends in _BUSY:
\* none is output_dir_mostrecent, and what discovery decides (reuse, the copies
\* compared, the next version number) is what it decides for the training root
\* without its _BUSY directories.
C5_BusyNeverSelected ==
  /\ \A p \in Procs : ~EndsWith(proc[p].mostrecent, BUSY)
  /\ \A path \in LocationsNames \cap DOMAIN labelfiles :
       LET d == Discover(root, labelfiles, path, DataName)
       IN  /\ ~EndsWith(d.mostrecent, BUSY)
           /\ d = Discover(WithoutBusy(root), labelfiles, path, DataName)

\* C5 witness: discovery has just run on a training root that holds a _BUSY
\* directory sorting after every version directory.
C5_Witness ==
  \E p \in Procs :
    /\ proc[p].pc = "stage"
    /\ \E b \in DOMAIN root :
         /\ EndsWith(b, BUSY)
         /\ \A n \in DOMAIN root : n = b \/ StrLess(n, b)
    /\ VersionNames(root) # {}

\* C6: the new version number is 1 without any version directory, and else one
\* more than the numerically largest version number.
C6_NextVersion ==
  \A p \in Procs :
    proc[p].pc = "stage" =>
      proc[p].dataversion_new =
        IF VersionNames(root) = {} THEN 1 ELSE IntOf(NewestVersion(root)) + 1

\* C7: at every point of the tile loop the accepted boxes of the split are
\* pairwise without a common point (touching counts as a common point).
C7_NonOverlap ==
  \A p \in Procs :
    \A i, j \in 1..Len(proc[p].created_images) :
      i < j => ~SharePoint(proc[p].created_images[i], proc[p].created_images[j])

\* C7 witness: a split has accepted two boxes after skipping a location.
C7_Witness ==
  \E p \in Procs :
    /\ Len(proc[p].created_images) = 2
    /\ proc[p].loc_idx = 3

\* C8: when the most recent version directory holds equal copies of both
\* inputs under their names, the call returns that directory and its number
\* and leaves the training root as it was.
C8_ReuseFrame ==
  \A p \in Procs :
    (/\ Ended(p)
     /\ VersionNames(proc[p].root_at_call) # {}
     /\ proc[p].labellocations_path \in DOMAIN proc[p].files_at_call
     /\ proc[p].labeldata_path \in DOMAIN proc[p].files_at_call
     /\ InputsUnchanged(proc[p].root_at_call, proc[p].files_at_call,
                        NewestVersion(proc[p].root_at_call),
                        proc[p].labellocations_path, proc[p].labeldata_path))
    => /\ proc[p].outcome =
            Returned(NewestVersion(proc[p].root_at_call),
                     IntOf(NewestVersion(proc[p].root_at_call)))
       /\ root = proc[p].root_at_call

\* C9: when the most recent version directory holds byte-identical copies of
\* both inputs, under whatever file names, the call does not go on to build.
C9_RenamedShortCircuits ==
  \A p \in Procs :
    (/\ proc[p].pc = "stage"
     /\ VersionNames(root) # {})
    => ~(/\ HoldsCopy(root[NewestVersion(root)], labelfiles[proc[p].labellocations_path])
         /\ HoldsCopy(root[NewestVersion(root)], labelfiles[proc[p].labeldata_path]))

\* C10: a build whose splits all completed ends with the staging directory
\* renamed: the _BUSY directory is gone, the final directory exists and is
\* returned with the version; and the final name is not there while the
\* splits are still being processed.
C10_Promotion ==
  \A p \in Procs :
    LET final == Format02d(proc[p].dataversion_new)
    IN  /\ (Ended(p) /\ proc[p].splits_done)
           => /\ proc[p].outcome = Returned(final, proc[p].dataversion_new)
              /\ final \o BUSY \notin DOMAIN root
              /\ final \in DOMAIN root
        /\ proc[p].pc \in {"split", "tile"} => final \notin DOMAIN root

\* The tile boxes of a split's locations: the only image files a build can
\* have put into the split's directory.
BoxesOf(gdf, traindata_type) ==
  {TileBox(l.bounds) : l \in Range(LabelsToUseForBounds(gdf, traindata_type))}

\* C11: a staging directory left by an earlier attempt is deleted and created
\* again before the build writes: right after staging the directory holds the
\* copies of the two input files and nothing else, and until promotion every
\* file under it was written by this build.
C11_StaleStagingRemoved ==
  \A p \in Procs :
    LET pr == proc[p]
        fresh == CopyToDir(CopyToDir(EmptyDir, pr.labellocations_path,
                                     pr.labellocations_gdf),
                           pr.labeldata_path, pr.labeldata_gdf)
    IN  /\ (pr.pc = "split" /\ pr.type_idx = 1) => root[busy_dir(pr)] = fresh
        /\ pr.pc \in {"split", "tile", "promote"} =>
              /\ root[busy_dir(pr)].files = fresh.files
              /\ \A t \in DOMAIN root[busy_dir(pr)].splits :
                    /\ root[busy_dir(pr)].splits[t].image
                         \subseteq BoxesOf(pr.labellocations_gdf, t)
                    /\ root[busy_dir(pr)].splits[t].mask
                         \subseteq root[busy_dir(pr)].splits[t].image

\* C11 witness: staging has just run in a call that found the staging
\* directory of its version left behind with image files in it, one of which
\* no location of this build asks for.
C11_Witness ==
  \E p \in Procs :
    /\ proc[p].pc = "split" /\ proc[p].type_idx = 1
    /\ busy_dir(proc[p]) \in DOMAIN proc[p].root_at_call
    /\ \E t \in DOMAIN proc[p].root_at_call[busy_dir(proc[p])].splits :
         proc[p].root_at_call[busy_dir(proc[p])].splits[t].image
           \ BoxesOf(proc[p].labellocations_gdf, t) # {}

\* A call that staged a build and ended with an exception.
FailedBuild(call) ==
  /\ call.outcome.kind = "raise"
  /\ call.outcome.cause \in {"getmap_to_file", "_create_mask", "os.rename"}

\* C12: a failed build does not use up its version number. The call after a
\* failed build does not fail in version discovery, and when it builds, it
\* builds the version number of the failed build, staging in the same
\* <NN>_BUSY directory.
C12_FailedBuildKeepsNumber ==
  /\ \A p \in Procs :
       (/\ proc[p].pc \in {"stage", "split", "tile", "promote"}
        /\ calls # << >>
        /\ FailedBuild(calls[Len(calls)]))
       => /\ proc[p].dataversion_new = calls[Len(calls)].dataversion_new
          /\ busy_dir(proc[p]) = Format02d(calls[Len(calls)].dataversion_new) \o BUSY
          /\ proc[p].pc # "stage" => busy_dir(proc[p]) \in DOMAIN root
  /\ (Len(calls) = 2 /\ FailedBuild(calls[1]))
       => /\ calls[2].outcome.kind = "raise" => calls[2].outcome.cause # "int"
          /\ calls[2].dataversion_new # 0
               => calls[2].dataversion_new = calls[1].dataversion_new

\* C12 witness: the call after a failed build has staged, with a version
\* directory in the training root and a locations file edited since the
\* failure.
C12_Witness ==
  \E p \in Procs :
    /\ proc[p].pc = "split"
    /\ calls # << >>
    /\ FailedBuild(calls[Len(calls)])
    /\ calls[Len(calls)].files # proc[p].files_at_call
    /\ VersionNames(root) # {}

\* C13: a call with an input file missing, for which the converter reports
\* nothing to convert, ends at once with the "Stop" exception; the step leaves
\* the training root and the label directory as they were.
C13_MissingInputsRaiseBeforeStaging ==
  [][\A p \in Procs : \A locations_path \in LocationsNames :
       (/\ proc[p].pc = "idle" /\ ncalls' = ncalls + 1
        /\ proc'[p].labellocations_path = locations_path
        /\ (locations_path \notin DOMAIN labelfiles \/ DataName \notin DOMAIN labelfiles)
        /\ ~convert_traindata_v1tov2(labelfiles, locations_path, DataName).ok)
       => /\ proc'[p].pc = "idle"
          /\ proc'[p].outcome = Raised("Stop: input file(s) don't exist", "none")
          /\ root' = root
          /\ labelfiles' = labelfiles]_vars

\* C13 witness: a call ended with the "Stop" exception in a training root
\* that holds version directories.
C13_Witness ==
  \E p \in Procs :
    /\ Ended(p)
    /\ proc[p].outcome = Raised("Stop: input file(s) don't exist", "none")
    /\ proc[p].labellocations_path \notin DOMAIN proc[p].files_at_call
    /\ VersionNames(root) # {}

\* C14: version discovery raises no error whatever directories the training
\* root holds, and a name it takes for the most recent version is purely
\* numeric.
C14_DiscoveryNeverFails ==
  \A p \in Procs :
    /\ ~(Ended(p) /\ proc[p].outcome.kind = "raise" /\ proc[p].outcome.cause = "int")
    /\ proc[p].mostrecent # << >> => IsIntLiteral(proc[p].mostrecent)

\* C15: the version directory a call has promoted holds, at its top, the copy
\* of each input file as the file was when the call started, and a train, a
\* validation and a test directory, each with an image and a mask directory.
C15_PromotedDirComplete ==
  \A p \in Procs :
    (Ended(p) /\ proc[p].outcome.kind = "return" /\ proc[p].splits_done)
    => LET promoted == root[proc[p].outcome.dir]
       IN  /\ \A path \in {proc[p].labellocations_path, proc[p].labeldata_path} :
                /\ path \in DOMAIN promoted.files
                /\ path \in DOMAIN proc[p].files_at_call
                     => promoted.files[path] = proc[p].files_at_call[path]
           /\ DOMAIN promoted.splits = Range(TraindataTypes)
           /\ \A t \in DOMAIN promoted.splits :
                DOMAIN promoted.splits[t] = {"image", "mask"}

\* C15 witness: a promoted build whose locations file has no test location,
\* beside an older version directory.
C15_Witness ==
  \E p \in Procs :
    /\ Ended(p) /\ proc[p].outcome.kind = "return" /\ proc[p].splits_done
    /\ LabelsToUseForBounds(proc[p].labellocations_gdf, "test") = << >>
    /\ proc[p].outcome.dir \in DOMAIN root
    /\ VersionNames(proc[p].root_at_call) # {}

\* The last call of _create_mask went past the force/exists test.
NotSkipped == maskcall.result \in {"True", "False"}

\* The non-zero pixels of the array the call rasterized.
NonZero(burned) ==
  {rc \in (1..Len(burned)) \X (1..MaxSide + 1) :
     rc[2] <= Len(burned[rc[1]]) /\ burned[rc[1]][rc[2]] # 0}

\* C16: a call of _create_mask that is not skipped returns True and writes the
\* mask (and the image copy, when one is asked for) when the non-zero pixels
\* of the rasterized array are at least the minimum fraction of its pixels;
\* otherwise it returns False and the files are what they were.
C16_MinimumGate ==
  NotSkipped =>
    LET enough == Cardinality(NonZero(maskcall.burned)) * 100
                    >= maskcall.minimum_pct_labeled
                         * Len(maskcall.burned) * Len(maskcall.burned[1])
    IN  /\ enough =>
              /\ maskcall.result = "True"
              /\ output_mask_filepath \in DOMAIN rasters
              /\ rasters[output_mask_filepath].written = maskcall.burned
              /\ maskcall.output_imagecopy_filepath # "None" =>
                    /\ maskcall.output_imagecopy_filepath \in DOMAIN rasters
                    /\ rasters[maskcall.output_imagecopy_filepath]
                         = rasters[input_image_filepath]
        /\ ~enough =>
              /\ maskcall.result = "False"
              /\ rasters = maskcall.rasters_before

\* C16 witness: a call with some pixels labelled, but fewer than the minimum,
\* an image copy asked for, and no file there but the image.
C16_Witness ==
  /\ maskcall.result = "False"
  /\ NonZero(maskcall.burned) # {}
  /\ maskcall.output_imagecopy_filepath # "None"
  /\ DOMAIN rasters = {input_image_filepath}

\* C17: a mask file has the width, the height, the transform and the CRS of
\* its reference image, and the raster written into it has that many rows
\* (the height) and columns (the width).
C17_MaskGridOfImage ==
  output_mask_filepath \in DOMAIN rasters =>
    LET mask == rasters[output_mask_filepath]
        image == rasters[input_image_filepath]
    IN  /\ mask.width = image.width
        /\ mask.height = image.height
        /\ mask.transform = image.transform
        /\ mask.crs = image.crs
        /\ Len(mask.written) = image.height
        /\ \A row \in 1..Len(mask.written) : Len(mask.written[row]) = image.width

\* C18: with force false and the mask file there, the call returns without
\* opening the image and without rasterizing, and leaves every file as it
\* was; with force true and the mask file there, the image is read, the
\* labels are rasterized, and a mask that is written holds the new array.
C18_SkipOrRecompute ==
  (/\ maskcall.result # "not called"
   /\ output_mask_filepath \in DOMAIN maskcall.rasters_before)
  => IF maskcall.force = FALSE
     THEN /\ maskcall.result = "None"
          /\ maskcall.opened = {}
          /\ maskcall.burned = << >>
          /\ rasters = maskcall.rasters_before
     ELSE LET image == maskcall.rasters_before[input_image_filepath]
          IN  /\ NotSkipped
              /\ maskcall.opened = {input_image_filepath}
              /\ maskcall.burned =
                   rasterize(maskcall.input_vector_label_list, burn_value,
                             image.transform, << image.width, image.height >>)
              /\ maskcall.result = "True"
                   => rasters[output_mask_filepath].written = maskcall.burned

\* C18 witness: a call with force false on a mask that was written for other
\* labels, so that making it again would have changed it.
C18_Witness ==
  /\ maskcall.result = "None"
  /\ LET image == rasters[input_image_filepath]
     IN  rasters[output_mask_filepath].written #
           rasterize(maskcall.input_vector_label_list, burn_value,
                     image.transform, << image.width, image.height >>)

C20_ConverterNothingToConvert ==
  [][\A p \in Procs : \A locations_path \in LocationsNames :
       (/\ proc[p].pc = "idle" /\ ncalls' = ncalls + 1
        /\ proc'[p].labellocations_path = locations_path
        /\ (locations_path \notin DOMAIN labelfiles \/ DataName \notin DOMAIN labelfiles))
       => IF \/ LegacyTrainName \notin DOMAIN labelfiles
             \/ LegacyValidationName \notin DOMAIN labelfiles
          THEN /\ proc'[p].outcome = Raised("Stop: input file(s) don't exist", "none")
               /\ labelfiles' = labelfiles
          ELSE /\ proc'[p].pc = "discover"
               /\ {locations_path, DataName} \subseteq DOMAIN labelfiles'
               /\ \A name \in DOMAIN labelfiles \ {locations_path, DataName} :
                    name \in DOMAIN labelfiles' /\ labelfiles'[name] = labelfiles[name]]_vars

\* C20 witness: the call ended with "Stop" in a label directory that holds the
\* legacy train and test files and no legacy validation file.
C20_Witness ==
  \E p \in Procs :
    /\ Ended(p)
    /\ proc[p].outcome = Raised("Stop: input file(s) don't exist", "none")
    /\ {LegacyTrainName, LegacyTestName} \subseteq DOMAIN proc[p].files_at_call
    /\ LegacyValidationName \notin DOMAIN proc[p].files_at_call
    /\ labelfiles = proc[p].files_at_call

\* C21: a call that ended with an exception inside the tile loop stopped at the
\* failing location: the caller gets "Error preparing dataset!" with the
\* exception of the fetch or of the rasterizer as its cause; no later split
\* has a directory, no image of the split belongs to a later location, the
\* failing tile was not tried again, and nothing was renamed.
C21_ExceptionAbortsBuild ==
  \A p \in Procs :
    (/\ Ended(p) /\ proc[p].outcome.kind = "raise"
     /\ proc[p].labellocations_gdf # << >>
     /\ ~proc[p].splits_done)
    => LET pr == proc[p]
           traindata_type == TraindataTypes[pr.type_idx]
           split == LabelsToUseForBounds(pr.labellocations_gdf, traindata_type)
           staged == root[busy_dir(pr)]
           failing == TileBox(split[pr.loc_idx].bounds)
       IN  /\ pr.outcome.message = "Error preparing dataset!"
           /\ pr.outcome.cause \in {"getmap_to_file", "_create_mask"}
           /\ DOMAIN staged.splits = {TraindataTypes[i] : i \in 1..pr.type_idx}
           /\ staged.splits[traindata_type].image
                \subseteq {TileBox(split[k].bounds) : k \in 1..pr.loc_idx}
           /\ failing \notin staged.splits[traindata_type].mask
           /\ pr.outcome.cause = "getmap_to_file"
                => failing \notin staged.splits[traindata_type].image
           /\ Format02d(pr.dataversion_new) \in DOMAIN root
                => /\ Format02d(pr.dataversion_new) \in DOMAIN pr.root_at_call
                   /\ root[Format02d(pr.dataversion_new)]
                        = pr.root_at_call[Format02d(pr.dataversion_new)]
           /\ \A i \in 1..Len(promotions) :
                promotions[i] = pr.dataversion_new
                  => Format02d(pr.dataversion_new) \in DOMAIN pr.root_at_call

\* C21 witness: the fetch raised for a train location that has locations
\* after it in its split, in a build whose later splits have locations too.
C21_Witness ==
  \E p \in Procs :
    /\ Ended(p) /\ proc[p].outcome.kind = "raise"
    /\ proc[p].outcome.cause = "getmap_to_file"
    /\ proc[p].type_idx = 1
    /\ proc[p].loc_idx < Len(LabelsToUseForBounds(proc[p].labellocations_gdf, "train"))
    /\ LabelsToUseForBounds(proc[p].labellocations_gdf, "validation") # << >>

\* C23: every iteration of the tile loop takes the next location of the split
\* in source order. When its tile box has a point in common with a box
\* accepted earlier in the split the location is skipped: the accepted boxes
\* and the training root stay as they are (no fetch) and the loop goes on.
\* Otherwise the box is appended to the accepted boxes; the first location of
\* a split is never skipped.
C23_SkipExactlyOnOverlap ==
  [][\A p \in Procs :
       (proc[p].pc = "tile" /\ proc'[p].loc_idx = proc[p].loc_idx + 1)
       => LET pr == proc[p]
              split == LabelsToUseForBounds(pr.labellocations_gdf,
                                            TraindataTypes[pr.type_idx])
              box == TileBox(split[pr.loc_idx + 1].bounds)
              overlaps == \E k \in 1..Len(pr.created_images) :
                            SharePoint(pr.created_images[k], box)
          IN  /\ overlaps => /\ proc'[p].created_images = pr.created_images
                             /\ proc'[p].pc = "tile"
                             /\ root' = root
              /\ ~overlaps => proc'[p].created_images = Append(pr.created_images, box)
              /\ pr.loc_idx = 0 => ~overlaps]_vars

\* C23 witness: the second location of a split has just been skipped; the
\* split holds the image of the first location only.
C23_Witness ==
  \E p \in Procs :
    /\ proc[p].pc = "tile"
    /\ proc[p].loc_idx = 2
    /\ Len(proc[p].created_images) = 1
    /\ busy_dir(proc[p]) \in DOMAIN root
    /\ root[busy_dir(proc[p])].splits[TraindataTypes[proc[p].type_idx]].image
         = {proc[p].created_images[1]}

\* C24: the accepted boxes are reset at the start of every split: at every
\* point of the tile loop they are what the locations of this split processed
\* so far accept starting from nothing, whatever the splits before accepted,
\* and every accepted box has its image in the directory of this split.
C24_AcceptedBoxesPerSplit ==
  \A p \in Procs :
    proc[p].pc = "tile"
    => LET pr == proc[p]
           traindata_type == TraindataTypes[pr.type_idx]
           split == LabelsToUseForBounds(pr.labellocations_gdf, traindata_type)
       IN  /\ pr.created_images = AcceptedBoxes(SubSeq(split, 1, pr.loc_idx), << >>)
           /\ Range(pr.created_images)
                = root[busy_dir(pr)].splits[traindata_type].image

\* C24 witness: a box fetched for the train split has been fetched again for
\* the validation split of the same build.
C24_Witness ==
  \E p \in Procs :
    /\ proc[p].pc = "tile"
    /\ TraindataTypes[proc[p].type_idx] = "validation"
    /\ \E box \in Range(proc[p].created_images) :
         /\ box \in root[busy_dir(proc[p])].splits["train"].image
         /\ box \in root[busy_dir(proc[p])].splits["validation"].image

\* C26: in every version directory of the training root, and so in every
\* promoted one, each split holds a mask for every image and an image for
\* every mask, under the same base name.
C26_ImagesAndMasksPaired ==
  \A d \in VersionNames(root) :
    \A t \in DOMAIN root[d].splits :
      root[d].splits[t].image = root[d].splits[t].mask

\* C26 witness: a build has been promoted whose train split holds two images.
C26_Witness ==
  \E p \in Procs :
    /\ Ended(p) /\ proc[p].outcome.kind = "return" /\ proc[p].splits_done
    /\ proc[p].outcome.dir \in VersionNames(root)
    /\ Cardinality(root[proc[p].outcome.dir].splits["train"].image) = 2

\* C30: the reuse check looks at the most recent version directory only, so
\* a call that returns, returns the highest-numbered version directory of the
\* training root, be it reused or just built; a version directory older than
\* that is never returned.
C30_ReturnsHighestVersion ==
  \A p \in Procs :
    (Ended(p) /\ proc[p].outcome.kind = "return")
    => /\ proc[p].outcome.dir = NewestVersion(root)
       /\ proc[p].outcome.version = IntOf(NewestVersion(root))

\* The call in progress is the one after a build that failed, and builds the
\* same version.
IsRerun(p) ==
  /\ calls # << >>
  /\ FailedBuild(calls[Len(calls)])
  /\ calls[Len(calls)].dataversion_new = proc[p].dataversion_new

\* The images the failed build left in the staging directory of the split.
LeftByFailedBuild(p, traindata_type) ==
  LET before == proc[p].root_at_call
  IN  IF busy_dir(proc[p]) \in DOMAIN before
         /\ traindata_type \in DOMAIN before[busy_dir(proc[p])].splits
      THEN before[busy_dir(proc[p])].splits[traindata_type].image
      ELSE {}

\* C25 as stated: in the call after a failed build, a location whose tile the
\* failed build had fetched is accepted without a new fetch (the images of the
\* split stay as they are), and its mask is there afterwards.
C25_RerunSkipsFetched ==
  [][\A p \in Procs :
       (/\ proc[p].pc = "tile" /\ proc'[p].pc = "tile"
        /\ IsRerun(p)
        /\ Len(proc'[p].created_images) = Len(proc[p].created_images) + 1)
       => LET traindata_type == TraindataTypes[proc[p].type_idx]
              box == proc'[p].created_images[Len(proc'[p].created_images)]
          IN  box \in LeftByFailedBuild(p, traindata_type)
              => /\ root'[busy_dir(proc[p])].splits[traindata_type].image
                      = root[busy_dir(proc[p])].splits[traindata_type].image
                 /\ box \in root'[busy_dir(proc[p])].splits[traindata_type].mask]_vars

\* C25, amended: the call after a failed build starts from an empty staging
\* directory, so it fetches every tile it accepts, those the failed build had
\* fetched included, and rasterizes every mask anew: when a location is
\* accepted neither its image nor its mask is there before, and both are
\* there afterwards.
C25_RerunFetchesAgain ==
  [][\A p \in Procs :
       (/\ proc[p].pc = "tile" /\ proc'[p].pc = "tile"
        /\ IsRerun(p)
        /\ Len(proc'[p].created_images) = Len(proc[p].created_images) + 1)
       => LET traindata_type == TraindataTypes[proc[p].type_idx]
              box == proc'[p].created_images[Len(proc'[p].created_images)]
              before == root[busy_dir(proc[p])].splits[traindata_type]
              after == root'[busy_dir(proc[p])].splits[traindata_type]
          IN  /\ box \notin before.image /\ box \notin before.mask
              /\ after.image = before.image \cup {box}
              /\ after.mask = before.mask \cup {box}]_vars

\* C25 witness: the call after a failed build has fetched a tile that the
\* failed build had left in its staging directory.
C25_Witness ==
  \E p \in Procs :
    /\ proc[p].pc = "tile"
    /\ IsRerun(p)
    /\ \E box \in Range(proc[p].created_images) :
         /\ box \in LeftByFailedBuild(p, TraindataTypes[proc[p].type_idx])
         /\ box \in root[busy_dir(proc[p])].splits[TraindataTypes[proc[p].type_idx]].mask

\* The numbers of the legacy directories train_<n> of a training root.
LegacyNumbers(r) ==
  {IntOf(SubSeq(n, Len(TRAIN_) + 1, Len(n))) :
     n \in {m \in DOMAIN r : /\ StartsWith(m, TRAIN_)
                              /\ IsIntLiteral(SubSeq(m, Len(TRAIN_) + 1, Len(m)))}}

\* No directory of the training root has a name that starts with a digit,
\* unless it is a staging directory.
NoVersionDir(r) ==
  \A n \in DOMAIN r : (n # << >> /\ n[1] \in DigitChars) => EndsWith(n, BUSY)

\* C28: with no version directory but legacy directories train_<n> in the
\* training root, a call always builds (it never returns without building)
\* and the version it builds is one more than the largest legacy number; with
\* a version directory present the legacy directories have no influence on
\* the version built.
C28_LegacyVersion ==
  \A p \in Procs :
    /\ (proc[p].pc = "stage" /\ NoVersionDir(root) /\ LegacyNumbers(root) # {})
       => \E n \in LegacyNumbers(root) :
            /\ \A m \in LegacyNumbers(root) : m <= n
            /\ proc[p].dataversion_new = n + 1
    /\ (Ended(p) /\ proc[p].outcome.kind = "return"
          /\ NoVersionDir(proc[p].root_at_call))
       => proc[p].splits_done
    /\ (proc[p].pc = "stage" /\ VersionNames(root) # {} /\ LegacyNumbers(root) # {})
       => proc[p].dataversion_new = IntOf(NewestVersion(root)) + 1

\* C29: no step of prepare_traindatasets, the legacy conversion included,
\* writes to an input file (locations or data file, under any of their names)
\* that exists: the file is still there afterwards, with the same content.
\* With both input files present nothing in the label directory is written.
C29_InputsNeverWritten ==
  [][proc' # proc
     => \A name \in DOMAIN labelfiles \cap (LocationsNames \cup {DataName}) :
          /\ name \in DOMAIN labelfiles'
          /\ labelfiles'[name] = labelfiles[name]]_vars

\* C22: an iteration of the tile loop that accepts a location and goes on
\* has rasterized the mask exactly when the fetch returned a path. When the
\* image was not there the fetch wrote it and the mask of the same base name
\* is in the mask directory of the split afterwards; when the image was
\* there the fetch returned no path and the iteration left the whole training
\* root as it was, the mask of that tile included.
C22_MaskIffPath ==
  [][\A p \in DOMAIN proc :
       (/\ proc[p].pc = "tile" /\ proc'[p].pc = "tile"
        /\ Len(proc'[p].created_images) = Len(proc[p].created_images) + 1)
       => LET traindata_type == TraindataTypes[proc[p].type_idx]
              box == proc'[p].created_images[Len(proc'[p].created_images)]
              before == root[busy_dir(proc[p])].splits[traindata_type]
              after == root'[busy_dir(proc[p])].splits[traindata_type]
          IN  IF box \in before.image
              THEN /\ proc'[p].image_filepath = << >>
                   /\ root' = root
              ELSE /\ proc'[p].image_filepath = box
                   /\ after.image = before.image \cup {box}
                   /\ box \in after.mask
                   /\ after.mask \ {box} = before.mask \ {box}]_vars

\* C22 witness: a builder has accepted a location whose image another
\* builder had written before its rasterizer raised: the fetch returned no
\* path and the tile is left without mask.
C22_Witness ==
  \E p \in DOMAIN proc :
    /\ proc[p].pc = "tile"
    /\ proc[p].created_images # << >>
    /\ proc[p].image_filepath = << >>
    /\ busy_dir(proc[p]) \in DOMAIN root
    /\ TraindataTypes[proc[p].type_idx] \in DOMAIN root[busy_dir(proc[p])].splits
    /\ LET split == root[busy_dir(proc[p])].splits[TraindataTypes[proc[p].type_idx]]
           box == proc[p].created_images[Len(proc[p].created_images)]
       IN  box \in split.image /\ box \notin split.mask

\* Two builders are building the same version in the same staging directory.
SameStaging(p, q) ==
  /\ p # q
  /\ proc[p].pc \in {"split", "tile", "promote"}
  /\ proc[q].pc \in {"stage", "split", "tile", "promote"}
  /\ proc[p].dataversion_new = proc[q].dataversion_new

\* C27: nothing guards the staging tree of a running build. When a second
\* builder that computed the same version number stages, the staging
\* directory the first builder is writing to is deleted with everything the
\* first builder wrote, and holds the second builder's copies of the inputs
\* only.
C27_StagingUnguarded ==
  [][\A p, q \in DOMAIN proc :
       (SameStaging(p, q) /\ proc[q].pc = "stage" /\ proc'[q].pc = "split")
       => /\ busy_dir(proc[p]) = busy_dir(proc[q])
          /\ DOMAIN root'[busy_dir(proc[p])].splits = {}
          /\ proc'[p] = proc[p]]_vars

\* C27 witness: two builders computed the same version number, the first
\* had accepted and fetched a tile, and the staging of the second has left
\* the staging directory without that image; the first is still in its tile
\* loop.
C27_Witness ==
  \E p, q \in DOMAIN proc :
    /\ SameStaging(p, q)
    /\ proc[p].pc = "tile" /\ proc[q].pc = "split" /\ proc[q].type_idx = 1
    /\ proc[p].image_filepath # << >>
    /\ DOMAIN root[busy_dir(proc[p])].splits = {}

\* What holds of create_masks_for_images in every state: nothing was ever
\* renamed; a call that ran to its end left its output, complete, in
\* <output_basedir>_<NN>_BUSY, and <output_basedir>_<NN> exists only if it
\* was there before the call; while a call builds, the staging directory
\* holds only what this call put there; two calls in a row that built, built
\* the same version number; and as long as no sibling without the _BUSY
\* suffix exists, no call returns a reused directory and every build is
\* version 1.
OutputsStayBusy ==
  /\ promotions = << >>
  /\ \A p \in Procs :
       LET pr == proc[p]
           tmp == TRAIN_ \o Format02d(pr.dataversion_new) \o BUSY
           final == TRAIN_ \o Format02d(pr.dataversion_new)
       IN  /\ (Ended(p) /\ pr.outcome = ReturnedNone)
                => /\ tmp \in DOMAIN root
                   /\ root[tmp].files
                        = (input_vector_label_filename
                             :> calls[Len(calls)].labels[input_vector_label_filename])
                   /\ root[tmp].image = GlobTif(rasters)
                   /\ root[tmp].mask = GlobTif(rasters)
                   /\ final \in DOMAIN root => final \in DOMAIN pr.root_at_call
           /\ pr.pc = "image"
                => /\ tmp \in DOMAIN root
                   /\ root[tmp].image = GlobTif(rasters) \ pr.todo
                   /\ root[tmp].mask = root[tmp].image
           /\ (\A n \in DOMAIN root : StartsWith(n, TRAIN_) => EndsWith(n, BUSY))
                => /\ pr.outcome.kind # "return"
                   /\ pr.pc \in {"stage", "image"} => pr.dataversion_new = 1
  /\ (/\ Len(calls) = 2
      /\ calls[1].outcome = ReturnedNone
      /\ calls[2].outcome = ReturnedNone)
     => calls[1].dataversion_new = calls[2].dataversion_new

\* C31: create_masks_for_images never promotes its staging directory. No
\* step creates, removes or changes a sibling of the output directory whose
\* name does not end in _BUSY, and OutputsStayBusy holds throughout: the
\* output of a build stays in <output_basedir>_<NN>_BUSY, later calls compute
\* the same version number and rebuild the same staging directory, and the
\* reuse return is not reached through directories of this function's making.
C31_NeverPromoted ==
  /\ []OutputsStayBusy
  /\ [][WithoutBusy(root') = WithoutBusy(root)]_vars

\* C31 witness: two calls in a row on the same unchanged label file ran to
\* their end, both building version 1, and the output is in train_01_BUSY.
C31_Witness ==
  /\ Len(calls) = 2
  /\ calls[1].outcome = ReturnedNone /\ calls[2].outcome = ReturnedNone
  /\ calls[1].labels = calls[2].labels
  /\ calls[2].dataversion_new = 1
  /\ DOMAIN root = {TRAIN_ \o Format02d(1) \o BUSY}

\* No pixel of the prediction is above 0.5 once the outermost
\* border_pixels_to_ignore rows and columns are left out.
BlackInsideBorders(data, border_pixels_to_ignore) ==
  \A r \in PredRows, c \in PredCols :
    (/\ r > border_pixels_to_ignore /\ r <= 3 - border_pixels_to_ignore
     /\ c > border_pixels_to_ignore /\ c <= 3 - border_pixels_to_ignore)
      => data[r][c] * 2 <= 10

\* The prediction the last call of postprocess_prediction worked on: the
\* caller's array when one was passed, else the temporary file.
PredictionOf(call) ==
  IF call.use_arr THEN call.arr_before ELSE call.files_before[image_pred_filepath]

\* The last call had a prediction of one channel to work on, evaluate_mode
\* false, and no pixel above 0.5 inside the ignored borders.
BlackCall(call) ==
  /\ call.evaluate_mode = FALSE
  /\ call.use_arr \/ (call.use_filepath /\ image_pred_filepath \in DOMAIN call.files_before)
  /\ PredictionOf(call).n_channels = 1
  /\ BlackInsideBorders(PredictionOf(call).data, call.border_pixels_to_ignore)

\* C32: a call of postprocess_prediction with evaluate_mode false and a
\* prediction without a pixel above 0.5 once the border pixels are zeroed
\* returns; the output directory exists afterwards only if it existed before,
\* no file was written or changed, and when the prediction came from
\* image_pred_filepath that file is gone.
C32_BlackWritesNothing ==
  (calls # << >> /\ BlackCall(calls[1])) =>
    /\ calls[1].outcome = ReturnedNone
    /\ (output_dir \in DOMAIN rasters) = (output_dir \in DOMAIN calls[1].files_before)
    /\ DOMAIN rasters \subseteq DOMAIN calls[1].files_before
    /\ \A f \in DOMAIN rasters : rasters[f] = calls[1].files_before[f]
    /\ DOMAIN calls[1].files_before \ DOMAIN rasters
         = IF calls[1].use_arr THEN {} ELSE {image_pred_filepath}

\* A prediction whose only pixel above 0.5 is in the border, passed as a file
\* with one border pixel ignored: the output directory is not there, the
\* temporary file is gone.
C32_Witness ==
  /\ calls # << >> /\ BlackCall(calls[1])
  /\ ~calls[1].use_arr
  /\ calls[1].border_pixels_to_ignore = 1
  /\ calls[1].files_before[image_pred_filepath].data[1][1] = 9
  /\ output_dir \notin DOMAIN calls[1].files_before
  /\ output_dir \notin DOMAIN rasters
  /\ image_pred_filepath \notin DOMAIN rasters

====
